---- MODULE Spec2Model ----
(***************************************************************************)
(* A model of Flask Studio (roscoekerby/flask-studio): the port scan, the  *)
(* project analyzer (FlaskProjectAnalyzer), the FLASK_APP locator          *)
(* (SmartFlaskDetector) and the launch controller (FlaskServerManager) of  *)
(* src/flask_studio_pro.py, with the start_server prelude of               *)
(* src/flask_studio.py where the two differ.                               *)
(*                                                                         *)
(* Strings that the code takes apart (paths, module names, launcher        *)
(* strings) are sequences of one-character strings, so that replace,       *)
(* splitext, basename, endswith and lower are computed as Python computes  *)
(* them.  File contents are sequences of lines; a line is a record naming  *)
(* the statement it holds, and every substring or regex test of the code   *)
(* is a predicate over the lines.                                          *)
(***************************************************************************)
EXTENDS Integers, Sequences, FiniteSets, TLC

VARIABLES
    \* ---- the project on disk and its analysis ----
    fs,              \* the files under the project root, in os.walk order
    project_info,    \* FlaskServerManager.project_info
    flask_app_var,   \* the FLASK_APP entry of the window
    analysis_error,  \* the latest analyze_project has shown its error dialog
    analyses,        \* the calls of analyze_project so far
    \* ---- find_available_port ----
    fp_start,        \* the requested start port
    fp_free,         \* the ports of the host that can be bound right now
    fp_res,          \* the outcome of find_available_port(fp_start), once called
    \* ---- the launch controller ----
    variant,         \* "pro": flask_studio_pro.py, "basic": flask_studio.py
    server_running,  \* self.server_running
    server_process,  \* self.server_process: a process id, or NoProc for None
    server_port,     \* self.server_port
    port_var,        \* the port entry of the window, as the number it parses to
    auto_port_var,   \* the "find a free port" checkbox
    run_method_var,  \* the run method selector
    status_var,      \* the status line of the window
    worker_touched,  \* what of the display the worker threads have touched themselves
    procs,           \* the child processes spawned so far, by process id
    workers,         \* the _run_server threads started so far
    ui_queue,        \* callbacks posted with root.after(0, ...), oldest first
    timers,          \* callbacks posted with root.after(1000, ...), oldest first
    main_pc,         \* where the main thread is: "idle", or inside stop_server
    stop_target,     \* the process stop_server is waiting on
    launched,        \* the helper processes the step just taken has run
    app_tests,       \* its runs of test_flask_app_setting, in order, with their verdicts
    \* ---- _handle_startup_failure ----
    error_lines,     \* the error lines the worker has captured
    failure_class,   \* the class of suggestions shown for them, once shown
    \* ---- flask_studio_lite.py ----
    lite_scan,       \* find_flask_files: whether it has run, and the list it returned
    console_lines    \* the lines of text the console holds

anVars == <<fs, project_info, flask_app_var, analysis_error, analyses>>
fpVars == <<fp_start, fp_free, fp_res>>
ctlVars == <<variant, server_running, server_process, server_port, port_var,
             auto_port_var, run_method_var, status_var, worker_touched,
             procs, workers, ui_queue, timers, main_pc, stop_target, launched, app_tests>>
auxVars == <<error_lines, failure_class, lite_scan, console_lines>>
vars == <<anVars, fpVars, ctlVars, auxVars>>

\* None, where a process is expected.
NoProc == 0

\* self.server_port = 5000
DefaultPort == 5000

\* FlaskServerManager.__init__: the state of a controller just constructed.
CtlFresh ==
    /\ server_running = FALSE
    /\ server_process = NoProc
    /\ server_port = DefaultPort
    /\ status_var = "Stopped"
    /\ worker_touched = {}
    /\ procs = <<>>
    /\ workers = <<>>
    /\ ui_queue = <<>>
    /\ timers = <<>>
    /\ main_pc = "idle"
    /\ stop_target = NoProc
    /\ launched = {}
    /\ app_tests = <<>>

\* The variables of _handle_startup_failure when no failure is modelled.
AuxIdle ==
    /\ error_lines = <<>>
    /\ failure_class = "none"
    /\ lite_scan = [scanned |-> FALSE, flask_files |-> <<>>]
    /\ console_lines = 0

\* The variables of the controller when no controller is modelled.
CtlIdle ==
    /\ CtlFresh
    /\ variant = "pro"
    /\ port_var = DefaultPort
    /\ auto_port_var = TRUE
    /\ run_method_var = "auto"

\* ------------------------------------------------------------------------
\* Generic helpers
\* ------------------------------------------------------------------------
SetMax(S) == CHOOSE x \in S : \A y \in S : y <= x
SetMin(S) == CHOOSE x \in S : \A y \in S : x <= y

\* ------------------------------------------------------------------------
\* Strings: sequences of one-character strings
\* ------------------------------------------------------------------------
S_app == <<"a", "p", "p">>
S_application == <<"a", "p", "p", "l", "i", "c", "a", "t", "i", "o", "n">>
S_py == <<".", "p", "y">>
S_init == <<"_", "_", "i", "n", "i", "t", "_", "_">>
S_init_py == <<"_", "_", "i", "n", "i", "t", "_", "_", ".", "p", "y">>
S_flask == <<"f", "l", "a", "s", "k">>
S_create_app == <<"c", "r", "e", "a", "t", "e", "_", "a", "p", "p">>
S_main == <<"m", "a", "i", "n">>
S_run == <<"r", "u", "n">>
S_app_py == <<"a", "p", "p", ".", "p", "y">>
S_run_py == <<"r", "u", "n", ".", "p", "y">>
S_wsgi_py == <<"w", "s", "g", "i", ".", "p", "y">>
S_main_py == <<"m", "a", "i", "n", ".", "p", "y">>
S_server_py == <<"s", "e", "r", "v", "e", "r", ".", "p", "y">>
S_application_py == <<"a", "p", "p", "l", "i", "c", "a", "t", "i", "o", "n", ".", "p", "y">>
S_dot_init == <<".", "_", "_", "i", "n", "i", "t", "_", "_">>
S_venv == <<"v", "e", "n", "v">>
S_dotvenv == <<".", "v", "e", "n", "v">>
S_env == <<"e", "n", "v">>
S_dotenv == <<".", "e", "n", "v">>
S_pycache == <<"_", "_", "p", "y", "c", "a", "c", "h", "e", "_", "_">>
S_node_modules == <<"n", "o", "d", "e", "_", "m", "o", "d", "u", "l", "e", "s">>

\* Python's None where a string is expected, and the test `if x:`.
NoneStr == <<"None">>
Truthy(s) == s # NoneStr /\ s # <<>>

EndsWith(s, suf) ==
    /\ Len(suf) <= Len(s)
    /\ SubSeq(s, Len(s) - Len(suf) + 1, Len(s)) = suf

StartsWith(s, pre) ==
    /\ Len(pre) <= Len(s)
    /\ SubSeq(s, 1, Len(pre)) = pre

\* `sub in s`
Contains(s, sub) ==
    \E i \in 1 .. (Len(s) - Len(sub) + 1) : SubSeq(s, i, i + Len(sub) - 1) = sub

\* s.rfind(c), counted from 1; 0 when c does not occur.
RFind(s, c) ==
    LET I == {i \in 1 .. Len(s) : s[i] = c} IN IF I = {} THEN 0 ELSE SetMax(I)

\* s.replace(c, d) for single characters c and d.
ReplaceChar(s, c, d) == [i \in 1 .. Len(s) |-> IF s[i] = c THEN d ELSE s[i]]

\* s.replace(pat, ''): every occurrence of pat, left to right, is dropped.
RECURSIVE RemoveAll(_, _)
RemoveAll(s, pat) ==
    IF s = <<>> THEN <<>>
    ELSE IF StartsWith(s, pat) THEN RemoveAll(SubSeq(s, Len(pat) + 1, Len(s)), pat)
    ELSE <<s[1]>> \o RemoveAll(Tail(s), pat)

\* str.lower() on the letters that occur in the model's names.
UpperLetters ==
    <<"A", "B", "C", "D", "E", "F", "G", "H", "I", "J", "K", "L", "M", "N", "O", "P", "Q",
      "R", "S", "T", "U", "V", "W", "X", "Y", "Z">>
LowerLetters ==
    <<"a", "b", "c", "d", "e", "f", "g", "h", "i", "j", "k", "l", "m", "n", "o", "p", "q",
      "r", "s", "t", "u", "v", "w", "x", "y", "z">>

LowerChar(c) ==
    IF \E i \in 1 .. Len(UpperLetters) : UpperLetters[i] = c
    THEN LowerLetters[CHOOSE i \in 1 .. Len(UpperLetters) : UpperLetters[i] = c]
    ELSE c
Lower(s) == [i \in 1 .. Len(s) |-> LowerChar(s[i])]

\* os.path.basename and os.path.dirname (POSIX separator).
BaseName(p) == SubSeq(p, RFind(p, "/") + 1, Len(p))
DirName(p) == LET i == RFind(p, "/") IN IF i = 0 THEN <<>> ELSE SubSeq(p, 1, i - 1)

\* os.path.splitext(p)[0]: the extension starts at the last dot of the last
\* path component, unless only dots precede it in that component.
SplitExtRoot(p) ==
    LET sepIndex == RFind(p, "/")
        dotIndex == RFind(p, ".")
    IN  IF dotIndex > sepIndex
           /\ \E i \in (sepIndex + 1) .. (dotIndex - 1) : p[i] # "."
        THEN SubSeq(p, 1, dotIndex - 1)
        ELSE p

\* os.path.join(a, b) for a relative b.
PathJoin(a, b) == IF a = <<>> THEN b ELSE a \o <<"/">> \o b

\* The directories of a relative path, outermost first.
RECURSIVE DirParts(_)
DirParts(p) ==
    LET I == {i \in 1 .. Len(p) : p[i] = "/"} IN
    IF I = {} THEN <<>>
    ELSE LET i == SetMin(I) IN <<SubSeq(p, 1, i - 1)>> \o DirParts(SubSeq(p, i + 1, Len(p)))

\* ------------------------------------------------------------------------
\* File contents
\* ------------------------------------------------------------------------
\* A line: k names the statement, v the variable it binds or names, n a
\* blueprint's declared name, ind whether the line is indented.
\*   from_flask     from flask import Flask
\*   import_flask   import flask
\*   flask_ctor     <v> = Flask(__name__)
\*   call_factory   <v> = create_app()
\*   call_mod_factory   <v> = pkg.create_app()
\*   alias          <v> = application
\*   route          @app.route('/')
\*   bp_route       @bp.route('/')
\*   bp_decl        <v> = Blueprint('<n>', __name__)
\*   bp_register    app.register_blueprint(<v>)
\*   def_factory    def create_app():
\*   return_app     return app
\*   main_guard     if __name__ == '__main__':
\*   app_run        app.run(debug=True)
\*   import_factory from pkg import create_app
\*   import_var     from <n> import <v>          (the generated run.py)
\*   var_run        <v>.run(                     (the generated run.py)
\*   other          x = 1
Line(k, v, ind, n) == [k |-> k, v |-> v, ind |-> ind, n |-> n]

AnyLine(content, P(_)) == \E i \in 1 .. Len(content) : P(content[i])

\* The substring tests of the code, line by line.
HasFromFlaskImport(l) == l.k = "from_flask"
HasImportFlask(l) ==
    \/ l.k = "import_flask"
    \/ l.k = "import_var" /\ StartsWith(l.v, S_flask)
HasFlaskParen(l) == l.k = "flask_ctor"
HasAppRoute(l) == l.k = "route"
HasDotRoute(l) == l.k \in {"route", "bp_route"}
HasBlueprintParen(l) == l.k = "bp_decl"
HasRegisterBlueprint(l) == l.k = "bp_register"
HasCreateAppParen(l) == l.k \in {"call_factory", "call_mod_factory", "def_factory"}
HasCreateApp(l) == HasCreateAppParen(l) \/ l.k = "import_factory"
HasDefCreateApp(l) == l.k = "def_factory"
HasReturnApp(l) == l.k = "return_app"
HasAppRunParen(l) ==
    \/ l.k = "app_run"
    \/ l.k = "var_run" /\ EndsWith(l.v, S_app)
HasDunderName(l) == l.k \in {"main_guard", "flask_ctor", "bp_decl"}
HasDunderMain(l) == l.k = "main_guard"
\* 'app = create_app()' in content, 'application = create_app()' in content
HasAppEqCreateApp(l) == l.k = "call_factory" /\ EndsWith(l.v, S_app)
HasApplicationEqCreateApp(l) == l.k = "call_factory" /\ EndsWith(l.v, S_application)

\* The regular expressions of the code, line by line.
\*   r'(\w+)\s*=\s*Flask\s*\('
ReFlaskCtor(l) == l.k = "flask_ctor"
\*   r'(\w+)\s*=\s*create_app\s*\('
ReCallFactory(l) == l.k = "call_factory"
\*   r'(\w+)\s*=\s*[\w\.]+\.create_app\s*\('
ReCallModFactory(l) == l.k = "call_mod_factory"
\*   the same three anchored at the line start (re.MULTILINE)
ReFlaskCtorAnchored(l) == ReFlaskCtor(l) /\ ~l.ind
ReCallFactoryAnchored(l) == ReCallFactory(l) /\ ~l.ind
ReCallModFactoryAnchored(l) == ReCallModFactory(l) /\ ~l.ind
\*   r'^(\w+)\s*=\s*application'
ReAliasAnchored(l) == l.k = "alias" /\ ~l.ind
\*   r'def\s+(create_app|make_app|app_factory)\s*\([^)]*\):'
ReFactoryDef(l) == l.k = "def_factory"

\* re.findall(pattern, content)[0] for a pattern with one group, or NoneStr.
FirstGroup(content, Re(_)) ==
    LET I == {i \in 1 .. Len(content) : Re(content[i])} IN
    IF I = {} THEN NoneStr ELSE content[SetMin(I)].v

\* for pattern in patterns: matches = re.findall(...); if matches: -> matches[0]
FirstOfThree(content, R1(_), R2(_), R3(_)) ==
    IF FirstGroup(content, R1) # NoneStr THEN FirstGroup(content, R1)
    ELSE IF FirstGroup(content, R2) # NoneStr THEN FirstGroup(content, R2)
    ELSE FirstGroup(content, R3)

\* ------------------------------------------------------------------------
\* The project on disk
\* ------------------------------------------------------------------------
\* A file: its path relative to the project root, its lines, and what
\* open()/read() does on it: "none" (reads), "decode" (UnicodeDecodeError),
\* "perm" (PermissionError) or "oserror" (any other OSError).
File(path, content, err) == [path |-> path, content |-> content, err |-> err]

\* os.path.basename(self.project_path).lower()
ProjectPath == <<"/", "s", "r", "v", "/", "S", "h", "o", "p">>
ProjectName == Lower(BaseName(ProjectPath))

IsPy(f) == EndsWith(BaseName(f.path), S_py)

\* dirs[:] = [d for d in dirs if not d.startswith('.') and d not in [...]]
WalkKeeps(f, excluded) ==
    \A i \in 1 .. Len(DirParts(f.path)) :
        LET d == DirParts(f.path)[i] IN ~StartsWith(d, <<".">>) /\ d \notin excluded

\* The .py files an os.walk that prunes `excluded` visits, in walk order.
Walk(fsx, excluded) == SelectSeq(fsx, LAMBDA f : WalkKeeps(f, excluded) /\ IsPy(f))

FileAt(fsx, path) ==
    LET I == {i \in 1 .. Len(fsx) : fsx[i].path = path} IN
    IF I = {} THEN File(path, <<>>, "oserror") ELSE fsx[SetMin(I)]

\* ------------------------------------------------------------------------
\* FlaskProjectAnalyzer
\* ------------------------------------------------------------------------
AnalyzerExcluded == {S_pycache, S_node_modules}

\* is_flask_file: a decode or permission error classifies the file as not a
\* Flask file; any other error leaves the function as an exception.
IsFlaskFileRaises(f) == f.err = "oserror"
IsFlaskFile(f) ==
    /\ f.err = "none"
    /\ \/ AnyLine(f.content, HasFromFlaskImport)
       \/ AnyLine(f.content, HasImportFlask)
       \/ AnyLine(f.content, HasFlaskParen)
       \/ AnyLine(f.content, HasAppRoute)
       \/ AnyLine(f.content, HasBlueprintParen)
       \/ AnyLine(f.content, HasCreateAppParen)

\* The per-file tests below catch every exception and answer False.
HasAppRun(f) ==
    /\ f.err = "none"
    /\ \/ AnyLine(f.content, HasAppRunParen)
       \/ AnyLine(f.content, HasDunderName) /\ AnyLine(f.content, HasDunderMain)

HasRoutes(f) == f.err = "none" /\ AnyLine(f.content, HasDotRoute)

HasBlueprints(f) ==
    /\ f.err = "none"
    /\ AnyLine(f.content, HasBlueprintParen) \/ AnyLine(f.content, HasRegisterBlueprint)

IsAppFactory(f) ==
    /\ f.err = "none"
    /\ AnyLine(f.content, HasDefCreateApp)
    /\ AnyLine(f.content, HasReturnApp)

HasAppCreation(f) ==
    /\ f.err = "none"
    /\ \/ AnyLine(f.content, ReFlaskCtor)
       \/ AnyLine(f.content, ReCallFactory)
       \/ AnyLine(f.content, ReCallModFactory)

DetectAppVariable(f) ==
    IF f.err # "none" THEN NoneStr
    ELSE FirstOfThree(f.content, ReFlaskCtor, ReCallFactory, ReCallModFactory)

\* One entry of flask_files.
Fact(f) ==
    [path             |-> f.path,
     has_app_run      |-> HasAppRun(f),
     has_routes       |-> HasRoutes(f),
     has_blueprints   |-> HasBlueprints(f),
     is_factory       |-> IsAppFactory(f),
     has_app_creation |-> HasAppCreation(f),
     app_variable     |-> DetectAppVariable(f)]

FindFlaskFilesRaises(fsx) ==
    \E i \in 1 .. Len(Walk(fsx, AnalyzerExcluded)) :
        IsFlaskFileRaises(Walk(fsx, AnalyzerExcluded)[i])

FindFlaskFiles(fsx) ==
    LET kept == SelectSeq(Walk(fsx, AnalyzerExcluded), IsFlaskFile)
    IN  [i \in 1 .. Len(kept) |-> Fact(kept[i])]

\* A plausible slip: blueprints are tested before the factory.
DetectRoutingPatternBlueprintFirst(ff) ==
    IF \E i \in 1 .. Len(ff) : ff[i].has_blueprints THEN "blueprint"
    ELSE IF \E i \in 1 .. Len(ff) : ff[i].is_factory THEN "factory"
    ELSE IF \E i \in 1 .. Len(ff) : ff[i].has_routes /\ ~ff[i].has_blueprints THEN "direct"
    ELSE "unknown"

DetectRoutingPattern(ff) ==
    LET has_direct_routes == \E i \in 1 .. Len(ff) : ff[i].has_routes /\ ~ff[i].has_blueprints
        has_blueprint_routes == \E i \in 1 .. Len(ff) : ff[i].has_blueprints
        has_factory == \E i \in 1 .. Len(ff) : ff[i].is_factory
    IN  IF has_factory THEN "factory"
        ELSE IF has_blueprint_routes THEN "blueprint"
        ELSE IF has_direct_routes THEN "direct"
        ELSE "unknown"

\* priority_patterns of find_main_app_file
PriorityPatterns ==
    <<ProjectName \o S_app_py, ProjectName \o S_py,
      S_wsgi_py, S_app_py, S_run_py, S_main_py, S_server_py>>

\* filename == pattern or filename.lower() == pattern
NameMatches(path, pattern) ==
    BaseName(path) = pattern \/ Lower(BaseName(path)) = pattern

\* A plausible slip: the loops are nested the other way round, and the
\* first file that matches any name is taken.
PriorityMatchFileFirst(files) ==
    LET hits == {j \in 1 .. Len(files) :
                    \E i \in 1 .. Len(PriorityPatterns) :
                        NameMatches(files[j].path, PriorityPatterns[i])}
    IN  IF hits = {} THEN NoneStr ELSE files[SetMin(hits)].path

\* for pattern in priority_patterns: for f in files: if match: return f['path']
PriorityMatch(files) ==
    LET hits == {pf \in (1 .. Len(PriorityPatterns)) \X (1 .. Len(files)) :
                    NameMatches(files[pf[2]].path, PriorityPatterns[pf[1]])}
    IN  IF hits = {} THEN NoneStr
        ELSE LET p == SetMin({pf[1] : pf \in hits})
                 j == SetMin({pf[2] : pf \in {h \in hits : h[1] = p}})
             IN  files[j].path

\* The content test of the fourth step.  Its list of alternatives ends in a
\* boolean, so when neither string is found `True in content` raises
\* TypeError, which the bare except turns into `continue`.
UsesFactoryInFile(f) ==
    /\ f.err = "none"
    /\ AnyLine(f.content, HasCreateApp)
    /\ \/ AnyLine(f.content, HasAppEqCreateApp)
       \/ AnyLine(f.content, HasApplicationEqCreateApp)

FirstPathWhere(files, P(_)) ==
    LET I == {i \in 1 .. Len(files) : P(files[i])} IN
    IF I = {} THEN NoneStr ELSE files[SetMin(I)].path

\* A plausible slip: the files that create an application are matched
\* against the priority names before the runnable files are.
FindMainAppFileCreationFirst(ff, fsx) ==
    LET runnable == SelectSeq(ff, LAMBDA f : f.has_app_run)
        non_init == SelectSeq(ff, LAMBDA f : f.has_app_creation /\ ~EndsWith(f.path, S_init_py))
        user     == FirstPathWhere(ff, LAMBDA f : UsesFactoryInFile(FileAt(fsx, f.path)))
        factories == SelectSeq(ff, LAMBDA f : f.is_factory)
        non_init_factories == SelectSeq(factories, LAMBDA f : ~EndsWith(f.path, S_init_py))
    IN  IF PriorityMatch(non_init) # NoneStr THEN PriorityMatch(non_init)
        ELSE IF PriorityMatch(runnable) # NoneStr THEN PriorityMatch(runnable)
        ELSE IF runnable # <<>> THEN runnable[1].path
        ELSE IF user # NoneStr THEN user
        ELSE IF non_init_factories # <<>> THEN non_init_factories[1].path
        ELSE IF factories # <<>> THEN factories[1].path
        ELSE NoneStr

FindMainAppFile(ff, fsx) ==
    LET runnable == SelectSeq(ff, LAMBDA f : f.has_app_run)
        non_init == SelectSeq(ff, LAMBDA f : f.has_app_creation /\ ~EndsWith(f.path, S_init_py))
        user     == FirstPathWhere(ff, LAMBDA f : UsesFactoryInFile(FileAt(fsx, f.path)))
        factories == SelectSeq(ff, LAMBDA f : f.is_factory)
        non_init_factories == SelectSeq(factories, LAMBDA f : ~EndsWith(f.path, S_init_py))
    IN  IF PriorityMatch(runnable) # NoneStr THEN PriorityMatch(runnable)
        ELSE IF PriorityMatch(non_init) # NoneStr THEN PriorityMatch(non_init)
        ELSE IF runnable # <<>> THEN runnable[1].path
        ELSE IF user # NoneStr THEN user
        ELSE IF non_init_factories # <<>> THEN non_init_factories[1].path
        ELSE IF factories # <<>> THEN factories[1].path
        ELSE NoneStr

\* detect_blueprints: per file, the declarations, then the registrations of
\* variables no entry collected so far names.
RECURSIVE AddRegistrations(_, _, _)
AddRegistrations(bps, regs, path) ==
    IF regs = <<>> THEN bps
    ELSE LET v == Head(regs).v IN
         AddRegistrations(
             IF \E i \in 1 .. Len(bps) : bps[i].variable = v THEN bps
             ELSE Append(bps, [name |-> v, variable |-> v, file |-> path]),
             Tail(regs), path)

BlueprintsOfFile(bps, f) ==
    LET decls == SelectSeq(f.content, HasBlueprintParen)
        regs  == SelectSeq(f.content, HasRegisterBlueprint)
        declared == [i \in 1 .. Len(decls) |->
                        [name |-> decls[i].n, variable |-> decls[i].v, file |-> f.path]]
    IN  AddRegistrations(bps \o declared, regs, f.path)

RECURSIVE BlueprintsFrom(_, _, _)
BlueprintsFrom(bps, ff, fsx) ==
    IF ff = <<>> THEN bps
    ELSE BlueprintsFrom(
             IF Head(ff).has_blueprints /\ FileAt(fsx, Head(ff).path).err = "none"
             THEN BlueprintsOfFile(bps, FileAt(fsx, Head(ff).path))
             ELSE bps,
             Tail(ff), fsx)

DetectBlueprints(ff, fsx) == BlueprintsFrom(<<>>, ff, fsx)

\* detect_app_factory: {'function': 'create_app', 'file': path} of the first
\* factory file, or None (file = NoneStr).
DetectAppFactory(ff) ==
    [function |-> S_create_app, file |-> FirstPathWhere(ff, LAMBDA f : f.is_factory)]

\* A plausible slip: the factory pattern is not looked at.
GetRecommendedRunMethodMainOnly(pattern, main, ff) ==
    IF main # NoneStr /\ \E i \in 1 .. Len(ff) : ff[i].path = main /\ ff[i].has_app_run
    THEN "direct"
    ELSE "flask_run"

GetRecommendedRunMethod(pattern, main, ff) ==
    IF pattern = "factory" THEN "flask_run"
    ELSE IF main # NoneStr /\ \E i \in 1 .. Len(ff) : ff[i].path = main /\ ff[i].has_app_run
    THEN "direct"
    ELSE "flask_run"

\* analyze(): the ProjectInfo.  `analysed` tells it from the empty dict the
\* controller starts with.
Analyze(fsx) ==
    LET ff == FindFlaskFiles(fsx)
        pattern == DetectRoutingPattern(ff)
        main == FindMainAppFile(ff, fsx)
    IN  [analysed               |-> TRUE,
         flask_files            |-> ff,
         routing_pattern        |-> pattern,
         main_app_file          |-> main,
         blueprints             |-> DetectBlueprints(ff, fsx),
         app_factory            |-> DetectAppFactory(ff),
         recommended_run_method |-> GetRecommendedRunMethod(pattern, main, ff)]

\* self.project_info = {}
NoProjectInfo ==
    [analysed               |-> FALSE,
     flask_files            |-> <<>>,
     routing_pattern        |-> "unknown",
     main_app_file          |-> NoneStr,
     blueprints             |-> <<>>,
     app_factory            |-> [function |-> S_create_app, file |-> NoneStr],
     recommended_run_method |-> "flask_run"]

\* ------------------------------------------------------------------------
\* SmartFlaskDetector
\* ------------------------------------------------------------------------
DetectorExcluded == {S_pycache, S_node_modules, S_venv, S_dotvenv}

\* os.path.splitext(path.replace('/', '.').replace('\\', '.'))[0]
ModuleOfPath(path) ==
    SplitExtRoot(ReplaceChar(ReplaceChar(path, "/", "."), "\\", "."))

\* rel_path.replace('\\', '/').replace('.py', '').replace('/', '.')
ModuleByRemoval(path) ==
    ReplaceChar(RemoveAll(ReplaceChar(path, "\\", "/"), S_py), "/", ".")

\* f"{module}:{variable}"
LauncherString(module, variable) == module \o <<":">> \o variable

\* len(filename_no_ext) > 3
ProjectFileMinLen == 3

\* Strategy 1: _check_project_specific_files
CheckProjectSpecificFiles(main, fsx) ==
    LET filename_no_ext == SplitExtRoot(BaseName(main))
        f == FileAt(fsx, main)
        app_var == FirstOfThree(f.content, ReFlaskCtor, ReCallFactory, ReCallModFactory)
    IN  IF ~Truthy(main) THEN NoneStr
        ELSE IF EndsWith(filename_no_ext, S_app) /\ Len(filename_no_ext) > ProjectFileMinLen
        THEN IF f.err # "none" THEN NoneStr
             ELSE IF app_var # NoneStr THEN LauncherString(filename_no_ext, app_var)
             ELSE LauncherString(filename_no_ext, S_app)
        ELSE NoneStr

\* _find_app_factories: one entry per factory definition, in walk order.
\* A plausible slip: the module of a package's __init__.py keeps its
\* last component.
FactoryModuleKeepsInit(path) == ModuleByRemoval(path)

FactoryModule(path) ==
    LET m == ModuleByRemoval(path) IN
    IF EndsWith(m, S_dot_init) THEN SubSeq(m, 1, Len(m) - 9) ELSE m

RECURSIVE FactoriesIn(_)
FactoriesIn(files) ==
    IF files = <<>> THEN <<>>
    ELSE LET f == Head(files)
             defs == IF f.err = "none" THEN SelectSeq(f.content, ReFactoryDef) ELSE <<>>
         IN  [i \in 1 .. Len(defs) |->
                 [function |-> S_create_app, module |-> FactoryModule(f.path), file |-> f.path]]
             \o FactoriesIn(Tail(files))

FindAppFactories(fsx) == FactoriesIn(Walk(fsx, DetectorExcluded))

\* Strategy 2: _improved_factory_check
ImprovedFactoryCheck(main, fsx) ==
    LET f == FileAt(fsx, main)
        app_var == IF FirstGroup(f.content, ReCallFactory) # NoneStr
                   THEN FirstGroup(f.content, ReCallFactory)
                   ELSE FirstGroup(f.content, ReCallModFactory)
        factory_info == FindAppFactories(fsx)
    IN  IF f.err # "none" THEN NoneStr
        ELSE IF AnyLine(f.content, HasCreateApp) /\ app_var # NoneStr
        THEN LauncherString(ModuleOfPath(main), app_var)
        ELSE IF factory_info # <<>> THEN factory_info[1].module
        ELSE NoneStr

\* Strategy 3: _check_main_file_app_variable
CheckMainFileAppVariable(main, fsx) ==
    LET f == FileAt(fsx, main)
        var == IF FirstGroup(f.content, ReFlaskCtorAnchored) # NoneStr
               THEN FirstGroup(f.content, ReFlaskCtorAnchored)
               ELSE IF FirstGroup(f.content, ReCallFactoryAnchored) # NoneStr
               THEN FirstGroup(f.content, ReCallFactoryAnchored)
               ELSE IF FirstGroup(f.content, ReCallModFactoryAnchored) # NoneStr
               THEN FirstGroup(f.content, ReCallModFactoryAnchored)
               ELSE FirstGroup(f.content, ReAliasAnchored)
    IN  IF ~Truthy(main) \/ f.err # "none" \/ var = NoneStr THEN NoneStr
        ELSE LauncherString(ModuleOfPath(main), var)

\* _find_app_variable_in_file: six anchored patterns, in order, for the two
\* names app and application.
AssignsAt(content, kinds, v) ==
    \E i \in 1 .. Len(content) :
        content[i].k \in kinds /\ ~content[i].ind /\ content[i].v = v

FindAppVariableInFile(f) ==
    LET anyCall == {"flask_ctor", "call_factory", "call_mod_factory", "bp_decl"} IN
    IF f.err # "none" THEN NoneStr
    ELSE IF AssignsAt(f.content, {"flask_ctor"}, S_app) THEN S_app
    ELSE IF AssignsAt(f.content, {"flask_ctor"}, S_application) THEN S_application
    ELSE IF AssignsAt(f.content, {"call_factory"}, S_app) THEN S_app
    ELSE IF AssignsAt(f.content, {"call_factory"}, S_application) THEN S_application
    ELSE IF AssignsAt(f.content, anyCall, S_app) THEN S_app
    ELSE IF AssignsAt(f.content, anyCall, S_application) THEN S_application
    ELSE NoneStr

\* Strategy 4: _check_wsgi_patterns
WsgiFiles == <<S_wsgi_py, S_application_py, S_app_py>>

PathExists(fsx, path) == \E i \in 1 .. Len(fsx) : fsx[i].path = path

CheckWsgiPatterns(main, fsx) ==
    LET I == {i \in 1 .. Len(WsgiFiles) :
                 /\ PathExists(fsx, WsgiFiles[i])
                 /\ WsgiFiles[i] # BaseName(main)
                 /\ FindAppVariableInFile(FileAt(fsx, WsgiFiles[i])) # NoneStr}
    IN  IF I = {} THEN NoneStr
        ELSE LauncherString(SplitExtRoot(WsgiFiles[SetMin(I)]),
                            FindAppVariableInFile(FileAt(fsx, WsgiFiles[SetMin(I)])))

\* _analyze_file_for_flask_apps: the direct instantiations of a file, then
\* its factory calls.
AppsOfFile(f) ==
    LET direct == IF f.err = "none" THEN SelectSeq(f.content, ReFlaskCtorAnchored) ELSE <<>>
        calls  == IF f.err = "none" THEN SelectSeq(f.content, ReCallFactoryAnchored) ELSE <<>>
        app(type, l) == [type |-> type, file |-> f.path,
                         flask_app |-> LauncherString(ModuleByRemoval(f.path), l.v)]
    IN  [i \in 1 .. Len(direct) |-> app("direct", direct[i])]
        \o [i \in 1 .. Len(calls) |-> app("factory_call", calls[i])]

RECURSIVE AppsIn(_)
AppsIn(files) ==
    IF files = <<>> THEN <<>> ELSE AppsOfFile(Head(files)) \o AppsIn(Tail(files))

\* priority_order of _deep_flask_analysis
DeepPriority(k, app, main) ==
    CASE k = 1 -> app.file = main
      [] k = 2 -> app.file \in {S_wsgi_py, S_app_py, S_application_py}
      [] k = 3 -> EndsWith(app.file, S_app_py)
      [] k = 4 -> app.type = "direct"
      [] OTHER -> Contains(app.file, S_main) \/ Contains(app.file, S_run)

\* Strategy 5: _deep_flask_analysis
DeepFlaskAnalysis(main, fsx) ==
    LET flask_apps == AppsIn(Walk(fsx, DetectorExcluded))
        hits == {ka \in (1 .. 5) \X (1 .. Len(flask_apps)) :
                    DeepPriority(ka[1], flask_apps[ka[2]], main)}
    IN  IF flask_apps = <<>> THEN NoneStr
        ELSE IF hits = {} THEN flask_apps[1].flask_app
        ELSE LET k == SetMin({ka[1] : ka \in hits})
                 a == SetMin({ka[2] : ka \in {h \in hits : h[1] = k}})
             IN  flask_apps[a].flask_app

\* The fallback of get_flask_app_setting.
FallbackSetting(main) == LauncherString(ModuleOfPath(main), S_app)

\* A plausible slip: a strategy's answer is returned whenever it is not
\* None, and the cascade ends without a fallback.
GetFlaskAppSettingNoFallback(main, fsx) ==
    IF CheckProjectSpecificFiles(main, fsx) # NoneStr THEN CheckProjectSpecificFiles(main, fsx)
    ELSE IF ImprovedFactoryCheck(main, fsx) # NoneStr THEN ImprovedFactoryCheck(main, fsx)
    ELSE IF CheckMainFileAppVariable(main, fsx) # NoneStr THEN CheckMainFileAppVariable(main, fsx)
    ELSE IF CheckWsgiPatterns(main, fsx) # NoneStr THEN CheckWsgiPatterns(main, fsx)
    ELSE IF DeepFlaskAnalysis(main, fsx) # NoneStr THEN DeepFlaskAnalysis(main, fsx)
    ELSE <<>>

\* get_flask_app_setting: the first truthy answer of the cascade.
GetFlaskAppSetting(main, fsx) ==
    IF Truthy(CheckProjectSpecificFiles(main, fsx)) THEN CheckProjectSpecificFiles(main, fsx)
    ELSE IF Truthy(ImprovedFactoryCheck(main, fsx)) THEN ImprovedFactoryCheck(main, fsx)
    ELSE IF Truthy(CheckMainFileAppVariable(main, fsx)) THEN CheckMainFileAppVariable(main, fsx)
    ELSE IF Truthy(CheckWsgiPatterns(main, fsx)) THEN CheckWsgiPatterns(main, fsx)
    ELSE IF Truthy(DeepFlaskAnalysis(main, fsx)) THEN DeepFlaskAnalysis(main, fsx)
    ELSE FallbackSetting(main)

\* ------------------------------------------------------------------------
\* analyze_project and the projects analysed
\* ------------------------------------------------------------------------
\* A plausible slip: the analyzer is kept from one analysis to the next and
\* its blueprints are never emptied.
InfoAfterAnalysisKeepsBlueprints(info, fsx) ==
    IF FindFlaskFilesRaises(fsx) THEN info
    ELSE [Analyze(fsx) EXCEPT !.blueprints = info.blueprints \o @]

\* analyze_project, then auto_detect_flask_app: an exception of analyze()
\* is caught and leaves project_info as it was.
InfoAfterAnalysis(info, fsx) == IF FindFlaskFilesRaises(fsx) THEN info ELSE Analyze(fsx)

FlaskAppAfterAnalysis(var, info, fsx) ==
    IF FindFlaskFilesRaises(fsx) \/ ~Truthy(Analyze(fsx).main_app_file) THEN var
    ELSE GetFlaskAppSetting(Analyze(fsx).main_app_file, fsx)

\* Variable names.
S_bp == <<"b", "p">>
S_api == <<"a", "p", "i">>
S_pkg == <<"p", "k", "g">>

\* Lines.
L_from_flask == Line("from_flask", <<>>, FALSE, <<>>)
L_import_flask == Line("import_flask", <<>>, FALSE, <<>>)
L_app_ctor == Line("flask_ctor", S_app, FALSE, <<>>)
L_app_ctor_ind == Line("flask_ctor", S_app, TRUE, <<>>)
L_application_ctor == Line("flask_ctor", S_application, FALSE, <<>>)
L_call_factory == Line("call_factory", S_app, FALSE, <<>>)
L_route == Line("route", <<>>, FALSE, <<>>)
L_bp_route == Line("bp_route", <<>>, FALSE, <<>>)
L_bp_decl == Line("bp_decl", S_bp, FALSE, S_api)
L_bp_register == Line("bp_register", S_bp, FALSE, <<>>)
L_def_factory == Line("def_factory", <<>>, FALSE, <<>>)
L_return_app == Line("return_app", <<>>, TRUE, <<>>)
L_main_guard == Line("main_guard", <<>>, FALSE, <<>>)
L_app_run == Line("app_run", <<>>, TRUE, <<>>)
L_import_factory == Line("import_factory", <<>>, FALSE, <<>>)
L_other == Line("other", <<>>, FALSE, <<>>)

\* File contents.
K_direct == <<L_from_flask, L_app_ctor, L_route, L_main_guard, L_app_run>>
K_direct_norun == <<L_from_flask, L_application_ctor, L_route>>
K_factory == <<L_from_flask, L_def_factory, L_app_ctor_ind, L_return_app>>
K_factory_user == <<L_import_factory, L_call_factory, L_main_guard, L_app_run>>
K_blueprint == <<L_from_flask, L_bp_decl, L_bp_route>>
K_register == <<L_from_flask, L_app_ctor, L_bp_register>>
K_declare_register == <<L_from_flask, L_app_ctor, L_bp_decl, L_bp_register>>
K_guarded == <<L_from_flask, L_main_guard, L_app_ctor_ind, L_app_run>>
K_import_only == <<L_import_flask>>
K_plain == <<L_other>>

Contents ==
    {K_direct, K_direct_norun, K_factory, K_factory_user, K_blueprint, K_register,
     K_declare_register,
     K_guarded, K_import_only, K_plain}

\* Paths, relative to the project root.
P_app == S_app_py
P_run == S_run_py
P_wsgi == S_wsgi_py
P_shopapp == <<"S", "h", "o", "p", "a", "p", "p", ".", "p", "y">>
P_myapp_init == <<"m", "y", "a", "p", "p", "/", "_", "_", "i", "n", "i", "t", "_", "_", ".", "p", "y">>
P_pkg_views == <<"p", "k", "g", "/", "v", "i", "e", "w", "s", ".", "p", "y">>
P_pkg_main == <<"p", "k", "g", "/", "m", "a", "i", "n", ".", "p", "y">>

Paths == {P_app, P_run, P_wsgi, P_shopapp, P_myapp_init, P_pkg_views, P_pkg_main}

ReadableFiles == {File(p, c, "none") : p \in Paths, c \in Contents}

\* Files in directories that are no source directories of the project: a
\* virtual environment, a hidden directory, a cache, installed packages.
P_venv_app == <<"v", "e", "n", "v", "/", "a", "p", "p", ".", "p", "y">>
P_env_app == <<"e", "n", "v", "/", "a", "p", "p", ".", "p", "y">>
P_hidden_app == <<".", "t", "o", "x", "/", "a", "p", "p", ".", "p", "y">>
P_cache_app == <<"_", "_", "p", "y", "c", "a", "c", "h", "e", "_", "_", "/", "a", "p", "p", ".", "p", "y">>
P_modules_app == <<"n", "o", "d", "e", "_", "m", "o", "d", "u", "l", "e", "s", "/", "a", "p", "p", ".", "p", "y">>

OffSourcePaths == {P_venv_app, P_env_app, P_hidden_app, P_cache_app, P_modules_app}

OffSourceFiles == {File(p, K_direct, "none") : p \in OffSourcePaths}

\* What open() or read() can raise on a file of the project.
ReadErrors == {"decode", "perm", "oserror"}

\* A Flask file at the root that cannot be read.
UnreadableFiles == {File(P_run, K_direct, e) : e \in ReadErrors}

\* More files of conventional name: the last generic name, the project's
\* own name, and a file named after the project in a package.
P_server == S_server_py
P_shop == <<"s", "h", "o", "p", ".", "p", "y">>
P_pkg_shopapp == <<"p", "k", "g", "/", "s", "h", "o", "p", "a", "p", "p", ".", "p", "y">>

NamedFiles == {File(p, K_direct, "none") : p \in {P_server, P_shop, P_pkg_shopapp}}

ProjectFiles == ReadableFiles \cup OffSourceFiles \cup UnreadableFiles \cup NamedFiles

\* os.walk is top-down: the files of the root come first, and the files of one
\* directory come together; the order within a directory is the file
\* system's.
IsWalkOrder(seq) ==
    /\ \A i, j \in 1 .. Len(seq) : i # j => seq[i].path # seq[j].path
    /\ \A i, j \in 1 .. Len(seq) :
           i < j => ~(DirName(seq[i].path) # <<>> /\ DirName(seq[j].path) = <<>>)
    /\ \A i, j, k \in 1 .. Len(seq) :
           (i < k /\ k < j /\ DirName(seq[i].path) = DirName(seq[j].path))
               => DirName(seq[k].path) = DirName(seq[i].path)

\* The most files a project holds.
MaxFiles == 2

Projects ==
    {seq \in UNION {[1 .. n -> ProjectFiles] : n \in 0 .. MaxFiles} : IsWalkOrder(seq)}

\* The variables of find_available_port when no scan is modelled.
FpIdle ==
    /\ fp_start = 5000
    /\ fp_free = {}
    /\ fp_res = [port |-> -1, probes |-> 0, raised |-> FALSE, done |-> FALSE]

AnInit ==
    /\ fs \in Projects
    /\ project_info = NoProjectInfo
    /\ flask_app_var = <<>>
    /\ analysis_error = FALSE
    /\ analyses = 0
    /\ FpIdle
    /\ CtlIdle
    /\ AuxIdle

\* The analyses of one run.
MaxAnalyses == 2

\* browse_directory / delayed_analyze_project: analyze_project()
AnalyzeProject ==
    /\ analyses < MaxAnalyses
    /\ project_info' = InfoAfterAnalysis(project_info, fs)
    /\ flask_app_var' = FlaskAppAfterAnalysis(flask_app_var, project_info, fs)
    /\ analysis_error' = FindFlaskFilesRaises(fs)
    /\ analyses' = analyses + 1
    /\ UNCHANGED <<fs, fpVars, auxVars, ctlVars>>

AnNext == AnalyzeProject

SpecAnalyze == AnInit /\ [][AnNext]_vars

\* ------------------------------------------------------------------------
\* find_available_port
\* ------------------------------------------------------------------------
\* range(start_port, start_port + 100)
ScanRange == 100

\* socket.bind accepts ports 0..65535 and raises OverflowError (not an
\* OSError) for any other number.
MaxPort == 65535

\* One probe: "ok" (bind succeeded), "oserror" (caught, scan continues) or
\* "overflow" (OverflowError: not caught by `except OSError`).
BindOutcome(port, free) ==
    IF port < 0 \/ port > MaxPort THEN "overflow"
    ELSE IF port \in free THEN "ok"
    ELSE "oserror"

\* No port: the function raised instead of returning one.
NoPort == -1

\* The loop of find_available_port from its i-th iteration on (i = 0 first):
\* the port returned, the number of probes made, and whether it raised.
RECURSIVE ScanFrom(_, _, _)
ScanFrom(start, i, free) ==
    IF i >= ScanRange
    THEN [port |-> start, probes |-> i, raised |-> FALSE, done |-> TRUE]
    ELSE LET o == BindOutcome(start + i, free) IN
         CASE o = "ok"       -> [port |-> start + i, probes |-> i + 1, raised |-> FALSE,
                                 done |-> TRUE]
           [] o = "overflow" -> [port |-> NoPort, probes |-> i + 1, raised |-> TRUE,
                                 done |-> TRUE]
           [] OTHER          -> ScanFrom(start, i + 1, free)

\* A plausible slip: the scan starts one past the requested port.
FindAvailablePortSkipFirst(start, free) == ScanFrom(start, 1, free)

FindAvailablePort(start, free) == ScanFrom(start, 0, free)

\* The inputs: the start ports tried, and the hosts, each given by its set
\* of bindable ports.  A host is either "mostly busy" (every port from the
\* start port to past the scan range is taken but for at most MaxHoles of
\* them) or "mostly free" (only the first k ports from the start are taken).
StartPorts == {5000, 65500}
MaxHoles == 2
MaxBusyPrefix == 6

ScanSpan(start) == start .. (start + ScanRange + 1)

HoleSets(start) ==
    {H \in SUBSET {start, start + 1, start + 5, start + 35, start + 36,
                   start + 99, start + 100} : Cardinality(H) <= MaxHoles}

FreeSets(start) ==
    HoleSets(start)
    \cup {ScanSpan(start) \ (start .. (start + k - 1)) : k \in 0 .. MaxBusyPrefix}

\* Before the call.
FpPending == [port |-> NoPort, probes |-> 0, raised |-> FALSE, done |-> FALSE]

\* The variables of the analysis when no project is modelled.
AnIdle ==
    /\ fs = <<>>
    /\ project_info = NoProjectInfo
    /\ flask_app_var = <<>>
    /\ analysis_error = FALSE
    /\ analyses = 0

FpInit ==
    /\ AnIdle
    /\ CtlIdle
    /\ AuxIdle
    /\ fp_start \in StartPorts
    /\ fp_free \in FreeSets(fp_start)
    /\ fp_res = FpPending

\* start_server: self.server_port = self.find_available_port(desired_port)
FpScan ==
    /\ ~fp_res.done
    /\ fp_res' = FindAvailablePort(fp_start, fp_free)
    /\ UNCHANGED <<fp_start, fp_free, anVars, ctlVars, auxVars>>

\* The host changes (ports are taken and released) between two scans.
FpRescan ==
    /\ fp_res.done
    /\ fp_free' \in FreeSets(fp_start)
    /\ fp_res' = FpPending
    /\ UNCHANGED <<fp_start, anVars, ctlVars, auxVars>>

FpNext == FpScan \/ FpRescan

SpecPort == FpInit /\ [][FpNext]_vars

\* ------------------------------------------------------------------------
\* FlaskServerManager: what start_server computes
\* ------------------------------------------------------------------------
S_application_suffix == <<":", "a", "p", "p", "l", "i", "c", "a", "t", "i", "o", "n">>
S_app_suffix == <<":", "a", "p", "p">>
S_create_app_suffix == <<":">> \o S_create_app
S_mysite == <<"m", "y", "s", "i", "t", "e">>
S_roscodetech_py == <<"r", "o", "s", "c", "o", "d", "e", "t", "e", "c", "h", ".", "p", "y">>

\* _scan_for_flask_files: any error on a file skips it.
ScanIsFlask(f) ==
    /\ f.err = "none"
    /\ \/ AnyLine(f.content, HasFromFlaskImport)
       \/ AnyLine(f.content, HasImportFlask)
       \/ AnyLine(f.content, HasFlaskParen)
       \/ AnyLine(f.content, HasAppRoute)
       \/ AnyLine(f.content, HasBlueprintParen)
       \/ AnyLine(f.content, HasCreateAppParen)

ScanForFlaskFiles(fsx) ==
    LET kept == SelectSeq(Walk(fsx, DetectorExcluded), ScanIsFlask)
    IN  [i \in 1 .. Len(kept) |->
            [path             |-> kept[i].path,
             has_app_creation |-> AnyLine(kept[i].content, ReFlaskCtor),
             is_factory       |-> AnyLine(kept[i].content, HasDefCreateApp)]]

\* The entry point files get_alternative_flask_app_settings looks for.
EntryPointFiles ==
    <<ProjectName \o S_app_py, ProjectName \o S_py, S_wsgi_py, S_app_py, S_run_py, S_main_py>>

EntryAlternatives(entry, fsx) ==
    IF PathExists(fsx, entry)
    THEN <<SplitExtRoot(entry) \o S_app_suffix,
           SplitExtRoot(entry) \o S_application_suffix,
           SplitExtRoot(entry)>>
    ELSE <<>>

FileAlternatives(info) ==
    IF EndsWith(info.path, S_init_py)
    THEN IF DirName(info.path) = <<>> THEN <<>>
         ELSE <<ReplaceChar(ReplaceChar(DirName(info.path), "/", "."), "\\", ".")>>
              \o (IF info.is_factory
                  THEN <<ReplaceChar(ReplaceChar(DirName(info.path), "/", "."), "\\", ".")
                         \o S_create_app_suffix>>
                  ELSE <<>>)
    ELSE (IF info.has_app_creation
          THEN <<ModuleOfPath(info.path) \o S_app_suffix,
                 ModuleOfPath(info.path) \o S_application_suffix>>
          ELSE <<>>)
         \o (IF info.is_factory
             THEN <<ModuleOfPath(info.path), ModuleOfPath(info.path) \o S_create_app_suffix>>
             ELSE <<>>)

RECURSIVE EntryAlternativesOf(_, _)
EntryAlternativesOf(entries, fsx) ==
    IF entries = <<>> THEN <<>>
    ELSE EntryAlternatives(Head(entries), fsx) \o EntryAlternativesOf(Tail(entries), fsx)

RECURSIVE FileAlternativesOf(_)
FileAlternativesOf(infos) ==
    IF infos = <<>> THEN <<>>
    ELSE FileAlternatives(Head(infos)) \o FileAlternativesOf(Tail(infos))

\* Duplicates removed, the first occurrence kept.
Unique(seq) ==
    SelectSeq([i \in 1 .. Len(seq) |-> [at |-> i, val |-> seq[i]]],
              LAMBDA e : \A j \in 1 .. (e.at - 1) : seq[j] # e.val)

GetAlternativeFlaskAppSettings(main, fsx) ==
    IF ~Truthy(main) THEN <<>>
    ELSE LET all == EntryAlternativesOf(EntryPointFiles, fsx)
                    \o FileAlternativesOf(ScanForFlaskFiles(fsx))
             kept == Unique(all)
         IN  [i \in 1 .. Len(kept) |-> kept[i].val]

\* flask_studio.py, start_server: the file to run is the first common name
\* in the root, else in mysite/, else the first .py file of a full walk
\* that imports Flask and can be run.
BasicMainFiles == <<S_app_py, S_run_py, S_main_py, S_server_py, S_roscodetech_py>>

BasicScanHit(f) ==
    /\ f.err = "none"
    /\ \/ AnyLine(f.content, HasFlaskParen)
       \/ AnyLine(f.content, HasFromFlaskImport)
       \/ AnyLine(f.content, HasImportFlask)
    /\ \/ AnyLine(f.content, HasAppRunParen)
       \/ AnyLine(f.content, HasDunderMain)

FirstIn(names, P(_)) ==
    LET I == {i \in 1 .. Len(names) : P(names[i])} IN
    IF I = {} THEN NoneStr ELSE names[SetMin(I)]

BasicFindFlaskFile(fsx) ==
    LET inRoot == FirstIn(BasicMainFiles, LAMBDA n : PathExists(fsx, n))
        inSite == FirstIn(BasicMainFiles, LAMBDA n : PathExists(fsx, PathJoin(S_mysite, n)))
        pyFiles == SelectSeq(fsx, IsPy)
        hits == SelectSeq(pyFiles, BasicScanHit)
    IN  IF inRoot # NoneStr THEN inRoot
        ELSE IF inSite # NoneStr THEN PathJoin(S_mysite, inSite)
        ELSE IF hits # <<>> THEN hits[1].path
        ELSE NoneStr

\* The scan of flask_studio.py lets an OSError other than a permission
\* error leave start_server as an exception.
BasicFindRaises(fsx) ==
    /\ FirstIn(BasicMainFiles, LAMBDA n : PathExists(fsx, n)) = NoneStr
    /\ FirstIn(BasicMainFiles, LAMBDA n : PathExists(fsx, PathJoin(S_mysite, n))) = NoneStr
    /\ \E i \in 1 .. Len(fsx) :
          /\ IsPy(fsx[i]) /\ fsx[i].err = "oserror"
          /\ \A j \in 1 .. (i - 1) : ~(IsPy(fsx[j]) /\ BasicScanHit(fsx[j]))

\* _create_run_script: the script written for the first file that creates
\* an application; with a detected factory the lookup app_factory['module']
\* fails and nothing is written.
RunScriptSource(info) ==
    LET I == {i \in 1 .. Len(info.flask_files) :
                 /\ info.flask_files[i].has_app_creation
                 /\ Truthy(info.flask_files[i].app_variable)}
    IN  IF info.app_factory.file # NoneStr \/ I = {} THEN NoneStr
        ELSE info.flask_files[SetMin(I)].path

RunScriptContent(info) ==
    LET f == CHOOSE g \in {info.flask_files[i] : i \in 1 .. Len(info.flask_files)} :
                 g.path = RunScriptSource(info)
    IN  <<Line("import_var", f.app_variable, TRUE, ModuleOfPath(f.path)),
          Line("main_guard", <<>>, TRUE, <<>>),
          Line("var_run", f.app_variable, TRUE, <<>>)>>

\* open(run_script_path, 'w'): run.py is replaced where it is, or appears
\* among the files of the root at any place of the walk order.
WithRunScript(fsx, content) ==
    IF PathExists(fsx, S_run_py)
    THEN {[i \in 1 .. Len(fsx) |->
             IF fsx[i].path = S_run_py THEN File(S_run_py, content, "none") ELSE fsx[i]]}
    ELSE {SubSeq(fsx, 1, k) \o <<File(S_run_py, content, "none")>> \o SubSeq(fsx, k + 1, Len(fsx)) :
             k \in {j \in 0 .. Len(fsx) : \A i \in 1 .. j : DirName(fsx[i].path) = <<>>}}

\* ------------------------------------------------------------------------
\* FlaskServerManager: the handlers
\* ------------------------------------------------------------------------
\* What int(self.port_var.get()) is given when the entry holds no number.
BadPortText == -2

\* The ports of a scan from `start` that no live child of this controller
\* holds.
FreePorts(start) ==
    {p \in start .. (start + ScanRange - 1) :
        \A i \in 1 .. Len(procs) : procs[i].alive => procs[i].port # p}

\* A step that runs no helper process.
NoHelpers ==
    /\ launched' = {}
    /\ app_tests' = <<>>

\* The fields of the controller that stop_server reads and writes.
Controller ==
    [server_running |-> server_running, server_process |-> server_process,
     status_var |-> status_var, procs |-> procs]

\* A plausible slip: the status line is reset, the flag is left as it is.
ServerStoppedOnStatusOnly(c) == [c EXCEPT !.status_var = "Stopped"]

\* _server_stopped, on those fields.
ServerStoppedOn(c) == [c EXCEPT !.server_running = FALSE, !.status_var = "Stopped"]

\* _server_stopped
ServerStopped ==
    /\ server_running' = ServerStoppedOn(Controller).server_running
    /\ status_var' = ServerStoppedOn(Controller).status_var

\* project_info['main_app_file'] once start_server has made sure the
\* project is analysed.
MainFileAtStart ==
    IF project_info.analysed THEN project_info.main_app_file
    ELSE InfoAfterAnalysis(project_info, fs).main_app_file

\* What one call of start_server leaves behind when it returns at once.
StartNothing ==
    [running |-> server_running, info |-> project_info, app |-> flask_app_var,
     helpers |-> {}, port |-> server_port, port_var |-> port_var, thread |-> FALSE,
     method |-> "direct", file |-> NoneStr, env_app |-> NoneStr, tests |-> <<>>]

\* One run of test_flask_app_setting and its verdict.
Tested(setting, ok) == [setting |-> setting, ok |-> ok]

\* A plausible slip: the loop goes on after an alternative has passed, and
\* the last one that passes is kept.
TryAlternativesNoBreak(alts, passes, i, tests) ==
    LET I == {j \in 1 .. Len(alts) : passes[j]}
    IN  [working |-> IF I = {} THEN NoneStr ELSE alts[SetMax(I)],
         tests |-> tests \o [j \in 1 .. Len(alts) |-> Tested(alts[j], passes[j])]]

\* for alt_setting in alternative_settings: from the i-th alternative on.
\* passes[j] tells whether the j-th alternative would load; `tests` are the
\* runs of test_flask_app_setting so far.
RECURSIVE TryAlternatives(_, _, _, _)
TryAlternatives(alts, passes, i, tests) ==
    IF i > Len(alts) THEN [working |-> NoneStr, tests |-> tests]
    ELSE IF passes[i]
    THEN [working |-> alts[i], tests |-> Append(tests, Tested(alts[i], TRUE))]
    ELSE TryAlternatives(alts, passes, i + 1, Append(tests, Tested(alts[i], FALSE)))

\* start_server of flask_studio_pro.py from the Flask check on: info and app
\* are project_info and the FLASK_APP entry after the analysis that precedes
\* it, scan the outcome of find_available_port, setting the FLASK_APP value
\* tried first and tried the outcome of the loop over the alternatives that
\* follows when that one fails.
ProStartChecked(info, app, scan, setting, tried, has_flask, install_yes, install_ok, test_ok) ==
    LET helpers  == {"check"} \cup (IF ~has_flask /\ install_yes THEN {"pip"} ELSE {})
        method0  == IF run_method_var = "auto" THEN info.recommended_run_method
                    ELSE run_method_var
        tested   == method0 = "flask_run"
        switched == tested /\ ~test_ok /\ tried.working # NoneStr
        analysed == [StartNothing EXCEPT !.info = info, !.app = app, !.helpers = helpers]
        ported   == [analysed EXCEPT
                        !.port = IF auto_port_var THEN scan.port ELSE port_var,
                        !.port_var = IF auto_port_var THEN scan.port ELSE port_var]
    IN  IF ~has_flask /\ ~(install_yes /\ install_ok) THEN analysed
        ELSE IF auto_port_var /\ scan.raised THEN analysed
        ELSE IF ~auto_port_var /\ port_var = BadPortText THEN analysed
        ELSE IF ~Truthy(info.main_app_file) THEN ported
        ELSE [ported EXCEPT
                 !.running = TRUE,
                 !.thread = TRUE,
                 !.file = info.main_app_file,
                 !.app = IF switched THEN tried.working ELSE app,
                 !.env_app = IF ~tested THEN NoneStr
                             ELSE IF switched THEN tried.working ELSE setting,
                 !.tests = IF ~tested THEN <<>>
                           ELSE IF test_ok THEN <<Tested(setting, TRUE)>>
                           ELSE tried.tests,
                 !.method = IF tested /\ ~test_ok /\ tried.working = NoneStr
                            THEN "direct" ELSE method0]

\* The FLASK_APP value start_server tries first: the entry of the window,
\* or what get_smart_flask_app_setting finds when the entry is empty.
FirstSetting(app, main) == IF app # <<>> THEN app ELSE GetFlaskAppSetting(main, fs)

\* start_server of flask_studio_pro.py, as a function of the state and of
\* what the environment answers: whether Flask is found, the answer to the
\* install dialog, whether pip succeeds, whether the FLASK_APP setting
\* loads, and which of the alternatives would.
ProStart(has_flask, install_yes, install_ok, test_ok, passes) ==
    IF server_running THEN StartNothing
    ELSE ProStartChecked(
             IF project_info.analysed THEN project_info
             ELSE InfoAfterAnalysis(project_info, fs),
             IF project_info.analysed THEN flask_app_var
             ELSE FlaskAppAfterAnalysis(flask_app_var, project_info, fs),
             FindAvailablePort(IF port_var = BadPortText THEN DefaultPort ELSE port_var,
                               FreePorts(IF port_var = BadPortText THEN DefaultPort
                                         ELSE port_var)),
             FirstSetting(IF project_info.analysed THEN flask_app_var
                          ELSE FlaskAppAfterAnalysis(flask_app_var, project_info, fs),
                          MainFileAtStart),
             TryAlternatives(
                 GetAlternativeFlaskAppSettings(MainFileAtStart, fs), passes, 1,
                 <<Tested(FirstSetting(IF project_info.analysed THEN flask_app_var
                                       ELSE FlaskAppAfterAnalysis(flask_app_var,
                                                                  project_info, fs),
                                       MainFileAtStart), FALSE)>>),
             has_flask, install_yes, install_ok, test_ok)

\* start_server of flask_studio.py: Flask is looked for, and installed,
\* before the running flag is tested.
BasicStartChecked(file, scan, has_flask, install_yes, install_ok) ==
    LET checked == [StartNothing EXCEPT
                       !.helpers = {"check"} \cup (IF ~has_flask /\ install_yes
                                                    THEN {"pip"} ELSE {})]
    IN  IF ~has_flask /\ ~(install_yes /\ install_ok) THEN checked
        ELSE IF server_running THEN checked
        ELSE IF BasicFindRaises(fs) \/ ~Truthy(file) THEN checked
        ELSE IF auto_port_var /\ scan.raised THEN checked
        ELSE IF ~auto_port_var /\ port_var = BadPortText THEN checked
        ELSE [checked EXCEPT
                 !.running = TRUE,
                 !.thread = TRUE,
                 !.file = file,
                 !.port = IF auto_port_var THEN scan.port ELSE port_var,
                 !.port_var = IF auto_port_var THEN scan.port ELSE port_var]

BasicStart(has_flask, install_yes, install_ok) ==
    BasicStartChecked(
        BasicFindFlaskFile(fs),
        FindAvailablePort(IF port_var = BadPortText THEN DefaultPort ELSE port_var,
                          FreePorts(IF port_var = BadPortText THEN DefaultPort ELSE port_var)),
        has_flask, install_yes, install_ok)

\* The thread start_server creates: it has yet to spawn its process.
NewWorker(method, file, env_app) ==
    [pc |-> "spawn", pid |-> NoProc, method |-> method, file |-> file,
     env_app |-> env_app,
     startup_successful |-> FALSE, error_lines |-> FALSE]

\* The threads one run of the controller starts.
MaxStarts == 2

\* The alternatives after the first MaxAlternative never pass the test.
MaxAlternative == 2

\* What the environment can answer to one start_server: Flask is found,
\* or it is not and the user declines the installation, or pip fails, or
\* pip succeeds; and, where the FLASK_APP setting is tested, whether it
\* loads and which of the alternatives would.
FlaskAnswers ==
    {[has_flask |-> TRUE, install_yes |-> FALSE, install_ok |-> FALSE],
     [has_flask |-> FALSE, install_yes |-> FALSE, install_ok |-> FALSE],
     [has_flask |-> FALSE, install_yes |-> TRUE, install_ok |-> FALSE],
     [has_flask |-> FALSE, install_yes |-> TRUE, install_ok |-> TRUE]}

NoneLoads(n) == [j \in 1 .. n |-> FALSE]

AlternativesLoading(n) ==
    {passes \in [1 .. n -> BOOLEAN] : \A j \in 1 .. n : passes[j] => j <= MaxAlternative}

TestAnswers ==
    IF variant = "pro" /\ ~server_running
    THEN {[test_ok |-> TRUE,
           passes |-> NoneLoads(Len(GetAlternativeFlaskAppSettings(MainFileAtStart, fs)))]}
         \cup {[test_ok |-> FALSE, passes |-> passes] :
                  passes \in AlternativesLoading(
                                Len(GetAlternativeFlaskAppSettings(MainFileAtStart, fs)))}
    ELSE {[test_ok |-> TRUE, passes |-> <<>>]}

\* What a call of start_server that ends as `r` does to the controller.
StartServerEnds(r) ==
    /\ server_running' = r.running
    /\ project_info' = r.info
    /\ flask_app_var' = r.app
    /\ analysis_error' = IF variant = "pro" /\ ~server_running /\ ~project_info.analysed
                       THEN FindFlaskFilesRaises(fs)
                       ELSE analysis_error
    /\ analyses' = IF variant = "pro" /\ ~server_running /\ ~project_info.analysed
                 THEN analyses + 1
                 ELSE analyses
    /\ server_port' = r.port
    /\ port_var' = r.port_var
    /\ workers' = IF r.thread THEN Append(workers, NewWorker(r.method, r.file, r.env_app)) ELSE workers
    /\ status_var' = IF r.thread THEN "Starting..." ELSE status_var
    /\ launched' = r.helpers
    /\ app_tests' = r.tests

\* One call of start_server; the timers are left to the caller.
StartServerCall ==
    /\ main_pc = "idle"
    /\ Len(workers) < MaxStarts
    /\ \E flask \in FlaskAnswers, test \in TestAnswers :
          StartServerEnds(
              IF variant = "pro"
              THEN ProStart(flask.has_flask, flask.install_yes, flask.install_ok,
                            test.test_ok, test.passes)
              ELSE BasicStart(flask.has_flask, flask.install_yes, flask.install_ok))
    /\ UNCHANGED <<fs, fpVars, auxVars, variant, server_process, auto_port_var, run_method_var,
                   worker_touched, procs, ui_queue, main_pc, stop_target>>

\* The Start button.
StartServer ==
    /\ StartServerCall
    /\ UNCHANGED timers

\* root.after(1000, what), called while the callbacks of `queue` wait: Tk
\* runs its timers in the order they fall due, so the callbacks posted with
\* a delay of 0 before this one run before it.
Timer(what, queue) == [what |-> what, behind |-> Len(queue)]

\* The timers once the oldest callback of the queue has run.
AfterCallback(ts) ==
    [i \in 1 .. Len(ts) |->
        [ts[i] EXCEPT !.behind = IF ts[i].behind > 0 THEN ts[i].behind - 1 ELSE 0]]

\* The timer the event loop can run now.
Due(what) ==
    /\ timers # <<>>
    /\ Head(timers).what = what
    /\ Head(timers).behind = 0

\* What a child writes before it falls silent: a line that announces the
\* server ("* Running on http://...") or a line of a traceback.
OutChoices == {<<"ok">>, <<"err">>}

\* The port a child listens on: the one on its command line under
\* `flask run`, Flask's default when the file is run directly.
ChildPort(method) == IF method = "flask_run" THEN server_port ELSE DefaultPort

\* What _run_server reads and writes of the window, on its own thread,
\* before it spawns the child.
WorkerTouches(method) ==
    IF variant = "pro"
    THEN {"python_var", "console"} \cup (IF method = "flask_run" THEN {"debug_var"} ELSE {})
    ELSE {"python_var", "debug_var"}

\* _run_server up to and including Popen.  flask_studio_pro.py writes the
\* command line to the console from the worker thread itself; both variants
\* read python_var (and debug_var) there.  Popen assigns self.server_process.
WorkerSpawn(w) ==
    /\ workers[w].pc = "spawn"
    /\ worker_touched' = worker_touched \cup WorkerTouches(workers[w].method)
    /\ \E spawned \in BOOLEAN :
          IF spawned
          THEN /\ \E out \in OutChoices :
                     procs' = Append(procs, [alive |-> TRUE, signals |-> <<>>, out |-> out,
                                             port |-> ChildPort(workers[w].method)])
               /\ server_process' = Len(procs) + 1
               /\ workers' = [workers EXCEPT ![w].pc = "read", ![w].pid = Len(procs) + 1]
               /\ timers' = Append(timers, Timer("set_running", ui_queue))
               /\ UNCHANGED ui_queue
          ELSE /\ workers' = [workers EXCEPT ![w].pc = "done"]
               /\ ui_queue' = Append(ui_queue, "server_stopped")
               /\ UNCHANGED <<procs, server_process, timers>>
    /\ UNCHANGED <<anVars, fpVars, auxVars, variant, server_running, server_port, port_var,
                   auto_port_var, run_method_var, status_var, main_pc,
                   stop_target>>
    /\ NoHelpers

\* One turn of the read loop on a line: the line is posted to the console
\* (a callback that changes nothing of the controller, and is left out of
\* ui_queue),
\* then self.server_process (whatever it is by now) is polled.
WorkerReadLine(w) ==
    LET me   == workers[w]
        line == Head(procs[me.pid].out)
        ok   == me.startup_successful \/ line = "ok"
        errs == me.error_lines \/ line = "err"
    IN  /\ me.pc = "read"
        /\ procs[me.pid].out # <<>>
        /\ procs' = [procs EXCEPT ![me.pid].out = Tail(@)]
        /\ IF server_process = NoProc
           THEN \* None has no poll(): the except branch
                /\ ui_queue' = Append(ui_queue, "server_stopped")
                /\ workers' = [workers EXCEPT ![w].pc = "done"]
           ELSE IF ~procs[server_process].alive
           THEN /\ ui_queue' = ui_queue
                                \o (IF variant = "pro" /\ ~ok /\ errs
                                    THEN <<"startup_failure">> ELSE <<>>)
                                \o <<"server_stopped">>
                /\ workers' = [workers EXCEPT ![w].pc = "done"]
           ELSE /\ UNCHANGED ui_queue
                /\ workers' = [workers EXCEPT ![w].startup_successful = ok,
                                              ![w].error_lines = errs]
        /\ UNCHANGED <<anVars, fpVars, auxVars, variant, server_running, server_process, server_port,
                       port_var, auto_port_var, run_method_var, status_var,
                       worker_touched, timers, main_pc, stop_target>>
    /\ NoHelpers

\* readline() returns '': the child is gone and its pipe is drained.
WorkerEndOfOutput(w) ==
    /\ workers[w].pc = "read"
    /\ procs[workers[w].pid].out = <<>>
    /\ ~procs[workers[w].pid].alive
    /\ workers' = [workers EXCEPT ![w].pc = "done"]
    /\ ui_queue' = ui_queue \o <<"server_stopped">>
    /\ UNCHANGED <<anVars, fpVars, auxVars, variant, server_running, server_process, server_port,
                   port_var, auto_port_var, run_method_var, status_var,
                   worker_touched, procs, timers, main_pc, stop_target>>
    /\ NoHelpers

\* A child exits by itself.
ProcExit(p) ==
    /\ procs[p].alive
    /\ procs' = [procs EXCEPT ![p].alive = FALSE]
    /\ UNCHANGED <<anVars, fpVars, auxVars, variant, server_running, server_process, server_port,
                   port_var, auto_port_var, run_method_var, status_var,
                   worker_touched, workers, ui_queue, timers, main_pc, stop_target>>
    /\ NoHelpers

\* The event loop runs the oldest callback posted with root.after(0, ...):
\* _server_stopped or _handle_startup_failure.
RunCallback ==
    /\ main_pc = "idle"
    /\ ui_queue # <<>>
    /\ ui_queue' = Tail(ui_queue)
    /\ IF Head(ui_queue) = "server_stopped"
       THEN /\ ServerStopped
            /\ timers' = AfterCallback(timers)
       ELSE /\ timers' = Append(AfterCallback(timers),
                                Timer(IF run_method_var # "direct" THEN "offer_direct"
                                      ELSE "offer_script", Tail(ui_queue)))
            /\ UNCHANGED <<server_running, status_var>>
    /\ UNCHANGED <<anVars, fpVars, auxVars, variant, server_process, server_port, port_var,
                   auto_port_var, run_method_var, worker_touched, procs, workers,
                   main_pc, stop_target>>
    /\ NoHelpers

\* _offer_create_run_script, after the dialogs are answered: `yes` to the
\* offer, whether run.py could be written, `retry` to the second dialog.
OfferCreateRunScript(yes, write_ok, retry) ==
    LET src     == RunScriptSource(project_info)
        created == yes /\ src # NoneStr /\ write_ok
    IN  IF ~created
        THEN /\ timers' = Tail(timers)
             /\ UNCHANGED anVars
        ELSE /\ fs' \in WithRunScript(fs, RunScriptContent(project_info))
             /\ project_info' =
                    IF retry
                    THEN [InfoAfterAnalysis(project_info, fs') EXCEPT !.main_app_file = S_run_py]
                    ELSE InfoAfterAnalysis(project_info, fs')
             /\ flask_app_var' = FlaskAppAfterAnalysis(flask_app_var, project_info, fs')
             /\ analysis_error' = FindFlaskFilesRaises(fs')
             /\ analyses' = analyses + 1
             /\ timers' = IF retry THEN Append(Tail(timers), Timer("start_server", ui_queue))
                          ELSE Tail(timers)

\* The event loop runs the oldest callback posted with root.after(1000, ...).
TimerSetRunning ==
    /\ main_pc = "idle"
    /\ Due("set_running")
    /\ timers' = Tail(timers)
    /\ status_var' = "Running"
    /\ UNCHANGED <<anVars, fpVars, auxVars, variant, server_running, server_process, server_port,
                   port_var, auto_port_var, run_method_var, worker_touched, procs, workers,
                   ui_queue, main_pc, stop_target>>
    /\ NoHelpers

\* _offer_direct_mode_retry
TimerOfferDirect ==
    /\ main_pc = "idle"
    /\ Due("offer_direct")
    /\ \E yes \in BOOLEAN :
          IF yes
          THEN /\ run_method_var' = "direct"
               /\ timers' = Append(Tail(timers), Timer("start_server", ui_queue))
          ELSE /\ timers' = Tail(timers)
               /\ UNCHANGED run_method_var
    /\ UNCHANGED <<anVars, fpVars, auxVars, variant, server_running, server_process, server_port,
                   port_var, auto_port_var, status_var, worker_touched, procs, workers,
                   ui_queue, main_pc, stop_target>>
    /\ NoHelpers

TimerOfferScript ==
    /\ main_pc = "idle"
    /\ Due("offer_script")
    /\ \E yes, write_ok, retry \in BOOLEAN : OfferCreateRunScript(yes, write_ok, retry)
    /\ UNCHANGED <<fpVars, auxVars, variant, server_running, server_process, server_port, port_var,
                   auto_port_var, run_method_var, status_var, worker_touched, procs,
                   workers, ui_queue, main_pc, stop_target>>
    /\ NoHelpers

\* root.after(1000, self.start_server)
TimerStartServer ==
    /\ Due("start_server")
    /\ timers' = Tail(timers)
    /\ StartServerCall

\* send_signal: a child that has exited already is not signalled.
Signal(ps, p, sig) ==
    IF ps[p].alive THEN [ps EXCEPT ![p].signals = Append(@, sig)] ELSE ps

\* stop_server.  With no process it is _server_stopped alone; with one, the
\* main thread asks it to terminate.
StopServer ==
    /\ main_pc = "idle"
    /\ IF server_process = NoProc
       THEN /\ ServerStopped
            /\ UNCHANGED <<procs, main_pc>>
       ELSE /\ procs' = Signal(procs, server_process, "terminate")
            /\ main_pc' = "stop_terminated"
            /\ UNCHANGED <<server_running, status_var>>
    /\ UNCHANGED <<anVars, fpVars, auxVars, variant, server_process, server_port, port_var,
                   auto_port_var, run_method_var, worker_touched, workers, ui_queue,
                   timers, stop_target>>
    /\ NoHelpers

\* self.server_process.wait(timeout=5) is entered, on what
\* self.server_process is by now.
StopServerWait ==
    /\ main_pc = "stop_terminated"
    /\ stop_target' = server_process
    /\ main_pc' = "stop_wait"
    /\ UNCHANGED <<anVars, fpVars, auxVars, variant, server_running, server_process, server_port,
                   port_var, auto_port_var, run_method_var, status_var, worker_touched,
                   procs, workers, ui_queue, timers>>
    /\ NoHelpers

\* wait(timeout=5) returns: the child is gone, or the timeout has expired
\* and self.server_process, read again, is killed.  Then
\* self.server_process = None.
StopServerWaited ==
    /\ main_pc = "stop_wait"
    /\ \E exits \in BOOLEAN :
          IF ~procs[stop_target].alive
          THEN UNCHANGED procs
          ELSE IF exits
          THEN procs' = [procs EXCEPT ![stop_target].alive = FALSE]
          ELSE procs' = [Signal(procs, server_process, "kill")
                            EXCEPT ![server_process].alive = FALSE]
    /\ server_process' = NoProc
    /\ main_pc' = "stop_clear"
    /\ UNCHANGED <<anVars, fpVars, auxVars, variant, server_running, server_port, port_var,
                   auto_port_var, run_method_var, status_var, worker_touched,
                   workers, ui_queue, timers, stop_target>>
    /\ NoHelpers

\* ... and stop_server ends with _server_stopped.
StopServerFinish ==
    /\ main_pc = "stop_clear"
    /\ ServerStopped
    /\ main_pc' = "idle"
    /\ stop_target' = NoProc
    /\ UNCHANGED <<anVars, fpVars, auxVars, variant, server_process, server_port, port_var,
                   auto_port_var, run_method_var, worker_touched, procs, workers,
                   ui_queue, timers>>
    /\ NoHelpers

\* The projects the controller is pointed at: an application that runs
\* itself, an application that does not, and a directory without Flask.
CtlProjects ==
    {<<File(P_app, K_direct, "none")>>,
     <<File(P_wsgi, K_direct_norun, "none")>>,
     <<File(P_app, K_plain, "none")>>}

CtlInit ==
    /\ fs \in CtlProjects
    /\ project_info = NoProjectInfo
    /\ flask_app_var = <<>>
    /\ analysis_error = FALSE
    /\ analyses = 0
    /\ FpIdle
    /\ AuxIdle
    /\ CtlFresh
    /\ variant \in {"pro", "basic"}
    /\ port_var \in {DefaultPort, BadPortText}
    /\ auto_port_var = TRUE
    /\ run_method_var = "auto"

CtlNext ==
    \/ StartServer
    \/ StopServer
    \/ StopServerWait
    \/ StopServerWaited
    \/ StopServerFinish
    \/ RunCallback
    \/ TimerSetRunning
    \/ TimerOfferDirect
    \/ TimerOfferScript
    \/ TimerStartServer
    \/ \E w \in 1 .. Len(workers) : WorkerSpawn(w)
    \/ \E w \in 1 .. Len(workers) : WorkerReadLine(w)
    \/ \E w \in 1 .. Len(workers) : WorkerEndOfOutput(w)
    \/ \E p \in 1 .. Len(procs) : ProcExit(p)

SpecCtl == CtlInit /\ [][CtlNext]_vars

\* ------------------------------------------------------------------------
\* _handle_startup_failure
\* ------------------------------------------------------------------------
\* The signatures _handle_startup_failure looks for in the error text.
G_locate ==
    <<"c", "o", "u", "l", "d", " ", "n", "o", "t", " ", "l", "o", "c", "a", "t", "e", " ",
      "a", " ", "f", "l", "a", "s", "k", " ", "a", "p", "p", "l", "i", "c", "a", "t", "i",
      "o", "n">>
G_find ==
    <<"f", "a", "i", "l", "e", "d", " ", "t", "o", " ", "f", "i", "n", "d", " ", "f", "l",
      "a", "s", "k", " ", "a", "p", "p", "l", "i", "c", "a", "t", "i", "o", "n">>
G_importerror ==
    <<"i", "m", "p", "o", "r", "t", "e", "r", "r", "o", "r">>
G_modulenotfounderror ==
    <<"m", "o", "d", "u", "l", "e", "n", "o", "t", "f", "o", "u", "n", "d", "e", "r", "r",
      "o", "r">>
G_permission ==
    <<"p", "e", "r", "m", "i", "s", "s", "i", "o", "n", " ", "d", "e", "n", "i", "e", "d">>

\* Lines a child can write that _run_server keeps as error lines: each
\* holds one of its error indicators.
E_locate ==
    <<"E", "r", "r", "o", "r", ":", " ", "C", "o", "u", "l", "d", " ", "n", "o", "t", " ",
      "l", "o", "c", "a", "t", "e", " ", "a", " ", "F", "l", "a", "s", "k", " ", "a", "p",
      "p", "l", "i", "c", "a", "t", "i", "o", "n", ".">>
E_find ==
    <<"E", "r", "r", "o", "r", ":", " ", "F", "a", "i", "l", "e", "d", " ", "t", "o", " ",
      "f", "i", "n", "d", " ", "F", "l", "a", "s", "k", " ", "a", "p", "p", "l", "i", "c",
      "a", "t", "i", "o", "n", ".">>
E_import ==
    <<"I", "m", "p", "o", "r", "t", "E", "r", "r", "o", "r", ":", " ", "c", "a", "n", "n",
      "o", "t", " ", "i", "m", "p", "o", "r", "t", " ", "n", "a", "m", "e", " ", "x">>
E_module ==
    <<"M", "o", "d", "u", "l", "e", "N", "o", "t", "F", "o", "u", "n", "d", "E", "r", "r",
      "o", "r", ":", " ", "N", "o", " ", "m", "o", "d", "u", "l", "e", " ", "n", "a", "m",
      "e", "d", " ", "x">>
E_permission ==
    <<"P", "e", "r", "m", "i", "s", "s", "i", "o", "n", "E", "r", "r", "o", "r", ":", " ",
      "[", "E", "r", "r", "n", "o", " ", "1", "3", "]", " ", "P", "e", "r", "m", "i", "s",
      "s", "i", "o", "n", " ", "d", "e", "n", "i", "e", "d">>
E_traceback ==
    <<"T", "r", "a", "c", "e", "b", "a", "c", "k", " ", "(", "m", "o", "s", "t", " ", "r",
      "e", "c", "e", "n", "t", " ", "c", "a", "l", "l", " ", "l", "a", "s", "t", ")", ":">>
E_locate_head ==
    <<"E", "r", "r", "o", "r", ":", " ", "C", "o", "u", "l", "d", " ", "n", "o", "t", " ",
      "l", "o", "c", "a", "t", "e", " ", "a", " ", "F", "l", "a", "s", "k">>
E_locate_tail ==
    <<"a", "p", "p", "l", "i", "c", "a", "t", "i", "o", "n", ".", " ", "E", "r", "r", "o",
      "r", ":", " ", "2">>

ErrorLines ==
    {E_locate, E_find, E_import, E_module, E_permission, E_traceback, E_locate_head,
     E_locate_tail}

\* " ".join(error_lines)
RECURSIVE JoinLines(_)
JoinLines(ls) ==
    IF ls = <<>> THEN <<>>
    ELSE IF Len(ls) = 1 THEN ls[1]
    ELSE ls[1] \o <<" ">> \o JoinLines(Tail(ls))

\* error_text = " ".join(error_lines).lower()
ErrorText(ls) == Lower(JoinLines(ls))

\* A plausible slip: the import errors are looked for first.
StartupFailureClassImportFirst(ls) ==
    IF Contains(ErrorText(ls), G_importerror) \/ Contains(ErrorText(ls), G_modulenotfounderror)
    THEN "import"
    ELSE IF Contains(ErrorText(ls), G_locate) \/ Contains(ErrorText(ls), G_find)
    THEN "app_not_found"
    ELSE IF Contains(ErrorText(ls), G_permission) THEN "permission"
    ELSE "generic"

\* The if/elif chain of _handle_startup_failure: which list of suggestions
\* is shown.
StartupFailureClass(ls) ==
    IF Contains(ErrorText(ls), G_locate) \/ Contains(ErrorText(ls), G_find)
    THEN "app_not_found"
    ELSE IF Contains(ErrorText(ls), G_importerror) \/ Contains(ErrorText(ls), G_modulenotfounderror)
    THEN "import"
    ELSE IF Contains(ErrorText(ls), G_permission) THEN "permission"
    ELSE "generic"

\* The error lines of one failed start.
MaxErrorLines == 2

FailureInit ==
    /\ AnIdle
    /\ FpIdle
    /\ CtlFresh
    /\ variant = "pro"
    /\ port_var = DefaultPort
    /\ auto_port_var = TRUE
    /\ run_method_var \in {"auto", "direct"}
    /\ error_lines \in UNION {[1 .. n -> ErrorLines] : n \in 1 .. MaxErrorLines}
    /\ failure_class = "none"
    /\ lite_scan = [scanned |-> FALSE, flask_files |-> <<>>]
    /\ console_lines = 0

\* _handle_startup_failure(error_lines): the suggestions are shown, and the
\* offer of a retry is posted for a second later.
HandleStartupFailure ==
    /\ failure_class = "none"
    /\ failure_class' = StartupFailureClass(error_lines)
    /\ timers' = Append(timers, Timer(IF run_method_var # "direct" THEN "offer_direct"
                                      ELSE "offer_script", ui_queue))
    /\ UNCHANGED <<anVars, fpVars, error_lines, lite_scan, console_lines, variant,
                   server_running, server_process, server_port, port_var, auto_port_var, run_method_var, status_var,
                   worker_touched, procs, workers, ui_queue, main_pc, stop_target,
                   launched, app_tests>>

FailureNext == HandleStartupFailure

SpecFailure == FailureInit /\ [][FailureNext]_vars

\* ------------------------------------------------------------------------
\* flask_studio_lite.py: find_flask_files
\* ------------------------------------------------------------------------
LiteExcluded == {S_pycache, S_node_modules, S_venv, S_dotvenv, S_env, S_dotenv}

\* is_flask_file of flask_studio_lite.py: any of its indicators in the
\* content; every exception answers False.
LiteIsFlaskFile(f) ==
    /\ f.err = "none"
    /\ \/ AnyLine(f.content, HasFromFlaskImport)
       \/ AnyLine(f.content, HasImportFlask)
       \/ AnyLine(f.content, HasFlaskParen)
       \/ AnyLine(f.content, HasAppRoute)
       \/ AnyLine(f.content, HasCreateAppParen)

\* priority_files
S_wsgi == <<"w", "s", "g", "i">>
S_server == <<"s", "e", "r", "v", "e", "r">>
PriorityFiles == <<S_wsgi, S_app, S_main, S_run, S_server, S_application>>

\* file.replace('.py', '') for the Flask files os.listdir finds at the root.
RootFiles(fsx) ==
    LET kept == SelectSeq(fsx, LAMBDA f : DirName(f.path) = <<>> /\ IsPy(f) /\ LiteIsFlaskFile(f))
    IN  [i \in 1 .. Len(kept) |-> RemoveAll(kept[i].path, S_py)]

\* for priority in priority_files: if priority in root_files:
\*     flask_files.insert(0, priority); root_files.remove(priority)
\* followed by flask_files.extend(root_files).
RECURSIVE Prioritize(_, _, _)
Prioritize(priorities, root_files, flask_files) ==
    IF priorities = <<>> THEN flask_files \o root_files
    ELSE IF \E i \in 1 .. Len(root_files) : root_files[i] = Head(priorities)
    THEN Prioritize(Tail(priorities),
                    SelectSeq(root_files, LAMBDA m : m # Head(priorities)),
                    <<Head(priorities)>> \o flask_files)
    ELSE Prioritize(Tail(priorities), root_files, flask_files)

\* The first n directories of a relative path, joined.
RECURSIVE JoinDirs(_, _)
JoinDirs(parts, n) ==
    IF n = 0 THEN <<>> ELSE PathJoin(JoinDirs(parts, n - 1), parts[n])

\* depth = root.replace(self.project_path, '').count(os.sep), for the
\* directory `dir` of the project (the empty path for the root itself).
WalkDepth(dir) ==
    LET root == IF dir = <<>> THEN ProjectPath ELSE ProjectPath \o <<"/">> \o dir
        rest == RemoveAll(root, ProjectPath)
    IN  Cardinality({i \in 1 .. Len(rest) : rest[i] = "/"})

\* if depth >= 2: dirs.clear(); continue
DepthLimit == 2

\* The walk reaches the files of a directory when no directory on the way
\* is excluded, none above it has stopped the descent, and the directory
\* itself is not skipped.
LiteWalkReaches(f) ==
    /\ WalkKeeps(f, LiteExcluded)
    /\ \A n \in 0 .. Len(DirParts(f.path)) :
           WalkDepth(JoinDirs(DirParts(f.path), n)) < DepthLimit

\* rel_path.replace(os.sep, '.').replace('.py', '')
LiteModule(path) == RemoveAll(ReplaceChar(path, "/", "."), S_py)

\* if module not in flask_files: flask_files.append(module), file by file.
RECURSIVE AppendNew(_, _)
AppendNew(flask_files, modules) ==
    IF modules = <<>> THEN flask_files
    ELSE IF \E i \in 1 .. Len(flask_files) : flask_files[i] = Head(modules)
    THEN AppendNew(flask_files, Tail(modules))
    ELSE AppendNew(Append(flask_files, Head(modules)), Tail(modules))

\* find_flask_files of flask_studio_lite.py. The root is listed in the order
\* the walk lists it.
LiteFindFlaskFiles(fsx) ==
    LET walked == SelectSeq(fsx, LAMBDA f : IsPy(f) /\ LiteWalkReaches(f) /\ LiteIsFlaskFile(f))
    IN  AppendNew(Prioritize(PriorityFiles, RootFiles(fsx), <<>>),
                  [i \in 1 .. Len(walked) |-> LiteModule(walked[i].path)])

\* Files of a project at each depth: at the root under the names of the
\* priority list and another, one to three directories down, in an
\* excluded directory, and under directories that repeat the project's path.
P_main == S_main_py
P_application == S_application_py
P_pkg_sub_views ==
    <<"p", "k", "g", "/", "s", "u", "b", "/", "v", "i", "e", "w", "s", ".", "p", "y">>
P_pkg_sub_deep_views ==
    <<"p", "k", "g", "/", "s", "u", "b", "/", "d", "e", "e", "p", "/", "v", "i", "e", "w",
      "s", ".", "p", "y">>
P_srv_shop_x_views ==
    <<"s", "r", "v", "/", "S", "h", "o", "p", "/", "x", "/", "v", "i", "e", "w", "s", ".",
      "p", "y">>

LitePaths ==
    {P_wsgi, P_app, P_main, P_run, P_server, P_application, P_shop, P_pkg_views,
     P_pkg_sub_views, P_pkg_sub_deep_views, P_srv_shop_x_views, P_venv_app}

LiteFiles ==
    {File(p, K_direct, "none") : p \in LitePaths}
        \cup {File(p, K_plain, "none") : p \in {P_app, P_pkg_views}}
        \cup {File(P_wsgi, K_direct, "perm")}

\* Top-down: a directory's files come before those of the directories in it.
IsTopDown(seq) ==
    \A i, j \in 1 .. Len(seq) :
        i < j => ~(/\ DirName(seq[j].path) # DirName(seq[i].path)
                   /\ StartsWith(DirName(seq[i].path), DirName(seq[j].path) \o <<"/">>))

\* The most files a scanned project holds.
MaxLiteFiles == 3

LiteProjects ==
    {seq \in UNION {[1 .. n -> LiteFiles] : n \in 0 .. MaxLiteFiles} :
        IsWalkOrder(seq) /\ IsTopDown(seq)}

LiteInit ==
    /\ fs \in LiteProjects
    /\ project_info = NoProjectInfo
    /\ flask_app_var = <<>>
    /\ analysis_error = FALSE
    /\ analyses = 0
    /\ FpIdle
    /\ CtlIdle
    /\ AuxIdle

\* self.find_flask_files()
LiteScan ==
    /\ ~lite_scan.scanned
    /\ lite_scan' = [scanned |-> TRUE, flask_files |-> LiteFindFlaskFiles(fs)]
    /\ UNCHANGED <<anVars, fpVars, ctlVars, error_lines, failure_class, console_lines>>

LiteNext == LiteScan

SpecLite == LiteInit /\ [][LiteNext]_vars

\* ------------------------------------------------------------------------
\* log_message (flask_studio.py), log (flask_studio_lite.py)
\* ------------------------------------------------------------------------
\* if lines > 1000:
ConsoleLimit == 1000

\* self.console_text.delete('1.0', '100.0'): the lines before line 100.
DeletedLines == 99

\* int(self.console_text.index('end-1c').split('.')[0]): the line of the
\* last position of the widget, which is the empty line after the newline
\* the text ends with.
ConsoleIndex(n) == n + 1

\* log_message(message), for a message of k lines: the message and its
\* newline are inserted, and the first lines are deleted when the index has
\* passed the limit.
AfterLogMessage(n, k) ==
    IF ConsoleIndex(n + k) > ConsoleLimit THEN n + k - DeletedLines ELSE n + k

\* The lines of one message: a line of the child's output, a short report,
\* and the output of pip that install_flask logs as one message.
MessageLines == {1, 3, 120}

\* The lines the console is followed up to.
MaxConsoleLines == 1400

ConsoleInit ==
    /\ AnIdle
    /\ FpIdle
    /\ CtlIdle
    /\ AuxIdle

LogMessage ==
    \E k \in MessageLines :
        /\ console_lines <= MaxConsoleLines
        /\ console_lines' = AfterLogMessage(console_lines, k)
        /\ UNCHANGED <<anVars, fpVars, ctlVars, error_lines, failure_class, lite_scan>>

ConsoleNext == LogMessage

SpecConsole == ConsoleInit /\ [][ConsoleNext]_vars

\* The ports of the scanned range that a bind would succeed on.
Bindable(start, free) ==
    {p \in start .. (start + ScanRange - 1) : p \in free /\ p >= 0 /\ p <= MaxPort}

\* C6: find_available_port(start) returns the smallest port p with
\* start <= p < start+100 that can be bound, whenever the occupied ports
\* leave at least one port of that range free.
C6_SmallestFreePort ==
    (fp_res.done /\ Bindable(fp_start, fp_free) # {})
        => /\ ~fp_res.raised
           /\ fp_res.port = SetMin(Bindable(fp_start, fp_free))

\* C6's spec example: 5000..5004 occupied, start 5000, result 5005.
C6_Witness ==
    /\ fp_start = 5000
    /\ fp_free = ScanSpan(5000) \ (5000 .. 5004)
    /\ fp_res.done
    /\ fp_res.port = 5005

\* C7: when no port of [start, start+100) can be bound, the scan makes
\* exactly 100 probes and returns the requested port without raising.
C7_ExhaustionFallsBack ==
    (fp_res.done /\ Bindable(fp_start, fp_free) = {})
        => /\ ~fp_res.raised
           /\ fp_res.port = fp_start
           /\ fp_res.probes = ScanRange

\* ------------------------------------------------------------------------
\* Properties of the analysis
\* ------------------------------------------------------------------------
AnyFact(ff, P(_)) == \E i \in 1 .. Len(ff) : P(ff[i])

\* The precedence the pattern is said to follow, over the retained facts.
PatternByPrecedence(ff) ==
    IF AnyFact(ff, LAMBDA f : f.is_factory) THEN "factory"
    ELSE IF AnyFact(ff, LAMBDA f : f.has_blueprints) THEN "blueprint"
    ELSE IF AnyFact(ff, LAMBDA f : f.has_routes) THEN "direct"
    ELSE "unknown"

\* C8: the routing pattern of an analysed project is 'factory' if any
\* retained file defines a factory (whatever else exists), else 'blueprint'
\* if any file uses blueprints, else 'direct' if any file declares routes,
\* else 'unknown'.
C8_PatternPrecedence ==
    project_info.analysed
        => project_info.routing_pattern = PatternByPrecedence(project_info.flask_files)

\* A factory-defining file next to a file with direct routes and next to
\* nothing else: the pattern is 'factory'.
C8_Witness ==
    /\ project_info.analysed
    /\ AnyFact(project_info.flask_files, LAMBDA f : f.is_factory)
    /\ AnyFact(project_info.flask_files,
               LAMBDA f : f.has_routes /\ ~f.has_blueprints /\ ~f.is_factory)
    /\ project_info.routing_pattern = "factory"

\* The module a relative path names: the extension dropped, the separators
\* turned into dots.
DottedModulePath(path) ==
    LET stem == IF EndsWith(path, S_py) THEN SubSeq(path, 1, Len(path) - Len(S_py)) ELSE path
    IN  [i \in 1 .. Len(stem) |-> IF stem[i] \in {"/", "\\"} THEN "." ELSE stem[i]]

NoStrategyAnswers(main, fsx) ==
    /\ ~Truthy(CheckProjectSpecificFiles(main, fsx))
    /\ ~Truthy(ImprovedFactoryCheck(main, fsx))
    /\ ~Truthy(CheckMainFileAppVariable(main, fsx))
    /\ ~Truthy(CheckWsgiPatterns(main, fsx))
    /\ ~Truthy(DeepFlaskAnalysis(main, fsx))

\* C10: once a project with a main file has been analysed, the launcher
\* string that get_flask_app_setting returned is non-empty, and when none
\* of the five strategies answers it is "<dotted module of the main
\* file>:app".
C10_SettingNeverEmpty ==
    (project_info.analysed /\ project_info.main_app_file # NoneStr)
        => /\ flask_app_var # <<>>
           /\ flask_app_var # NoneStr
           /\ NoStrategyAnswers(project_info.main_app_file, fs)
                => flask_app_var
                     = DottedModulePath(project_info.main_app_file) \o <<":", "a", "p", "p">>

\* A main file in a package whose application no strategy finds.
C10_Witness ==
    /\ project_info.analysed
    /\ project_info.main_app_file = P_pkg_main
    /\ NoStrategyAnswers(P_pkg_main, fs)
    /\ flask_app_var = <<"p", "k", "g", ".", "m", "a", "i", "n", ":", "a", "p", "p">>

\* ------------------------------------------------------------------------
\* Properties of the controller
\* ------------------------------------------------------------------------
AliveChildren == {p \in 1 .. Len(procs) : procs[p].alive}

\* C1: in every reachable state at most one child server process of the
\* controller is alive, however start_server, stop_server, the workers'
\* spawns and their posted _server_stopped callbacks interleave.
C1_AtMostOneChildAlive == Cardinality(AliveChildren) <= 1

\* C2: a start_server that finds server_running true starts no worker
\* thread and no external process, server or helper, and leaves
\* server_running, server_process and server_port as they were.
C2_StartWhileRunningRejected ==
    [][(server_running /\ StartServerCall)
          => /\ workers' = workers
             /\ procs' = procs
             /\ launched' = {}
             /\ UNCHANGED <<server_running, server_process, server_port>>]_vars

\* C3: the worker thread never reads or writes the window itself: no
\* console write and no UI variable is touched from it.
C3_WorkerNeverTouchesDisplay == worker_touched = {}

\* Every kill a child has received follows a terminate it received.
KilledOnlyAfterTerminate ==
    \A p \in 1 .. Len(procs) :
        \A i \in 1 .. Len(procs[p].signals) :
            procs[p].signals[i] = "kill" => (i > 1 /\ procs[p].signals[i - 1] = "terminate")

\* C4: stop_server with an active process asks it to terminate first, waits
\* for its exit, and kills only when that wait has timed out; when it
\* returns, server_process is None and server_running is false.
C4_StopTerminatesThenClears ==
    [][/\ (StopServer /\ server_process # NoProc)
             => procs' = Signal(procs, server_process, "terminate")
       /\ StopServerWaited
             => /\ KilledOnlyAfterTerminate'
                /\ procs' # procs => ~procs'[stop_target].alive
       /\ StopServerFinish
             => (server_process' = NoProc /\ ~server_running')]_vars

\* C5: stop_server with server_process None returns at once (it raises
\* nothing), signals no process and leaves server_running false and
\* server_process None; a second stop_server right after it would leave
\* the controller (flag, process handle, status line, children) as the
\* first one left it.
C5_StopWithoutProcess ==
    [][(StopServer /\ server_process = NoProc)
          => /\ main_pc' = "idle"
             /\ procs' = procs
             /\ ~server_running'
             /\ server_process' = NoProc
             /\ ServerStoppedOn(Controller') = Controller']_vars

\* stop_server has run between start_server and the spawn of its worker:
\* the flag is down again, no child exists.
C5_Witness ==
    /\ Len(workers) = 1
    /\ workers[1].pc = "spawn"
    /\ procs = <<>>
    /\ server_process = NoProc
    /\ ~server_running
    /\ status_var = "Stopped"

\* C9: the main file that project_info holds, if any, is the relative path
\* of one of the files that project_info lists.
C9_MainFileAmongFiles ==
    Truthy(project_info.main_app_file)
        => \E i \in 1 .. Len(project_info.flask_files) :
              project_info.flask_files[i].path = project_info.main_app_file

\* The thread the step just taken has started.
LatestWorker == workers[Len(workers)]

\* The alternatives start_server has just tested, after the setting it
\* chose first.
AlternativesTested == Tail(app_tests)

\* C11: when the setting start_server chose first has failed its test, the
\* settings tested after it are the alternatives of the main file, in list
\* order and without a gap; every one but the last tested has failed; when
\* the last tested has passed, the thread is started with flask run and
\* that setting, which is also put in the window's entry; when it has not,
\* every alternative has been tested and the thread is started with the
\* direct run method.
C11_AlternativesInOrder ==
    (app_tests # <<>> /\ ~app_tests[1].ok) =>
        /\ Len(AlternativesTested)
               <= Len(GetAlternativeFlaskAppSettings(project_info.main_app_file, fs))
        /\ \A j \in 1 .. Len(AlternativesTested) :
               /\ AlternativesTested[j].setting
                      = GetAlternativeFlaskAppSettings(project_info.main_app_file, fs)[j]
               /\ j < Len(AlternativesTested) => ~AlternativesTested[j].ok
        /\ IF AlternativesTested # <<>> /\ AlternativesTested[Len(AlternativesTested)].ok
           THEN /\ LatestWorker.method = "flask_run"
                /\ LatestWorker.env_app = AlternativesTested[Len(AlternativesTested)].setting
                /\ flask_app_var = LatestWorker.env_app
           ELSE /\ Len(AlternativesTested)
                       = Len(GetAlternativeFlaskAppSettings(project_info.main_app_file, fs))
                /\ LatestWorker.method = "direct"

\* The first setting and the first alternative have failed, the second
\* alternative has passed and the thread is started with it.
C11_Witness ==
    /\ Len(app_tests) = 3
    /\ ~app_tests[1].ok /\ ~app_tests[2].ok /\ app_tests[3].ok
    /\ LatestWorker.method = "flask_run"
    /\ LatestWorker.env_app = app_tests[3].setting
    /\ app_tests[3].setting # app_tests[2].setting

\* Every alternative has failed and the thread is started with the direct
\* run method.
C11_AllFailed ==
    /\ Len(app_tests) > 2
    /\ \A j \in 1 .. Len(app_tests) : ~app_tests[j].ok
    /\ LatestWorker.method = "direct"

\* C12: after an analysis, recommended_run_method is 'direct' exactly when
\* main_app_file is set, the file of that path has a run entry point and
\* routing_pattern is not 'factory'; it is 'flask_run' in every other case.
C12_DirectIff ==
    project_info.analysed =>
        /\ project_info.recommended_run_method \in {"direct", "flask_run"}
        /\ project_info.recommended_run_method = "direct"
               <=> /\ project_info.main_app_file # NoneStr
                   /\ HasAppRun(FileAt(fs, project_info.main_app_file))
                   /\ project_info.routing_pattern # "factory"

\* An analysed project whose main file has a run entry point and which is
\* not a factory project.
C12_Witness ==
    /\ project_info.analysed
    /\ project_info.main_app_file # NoneStr
    /\ HasAppRun(FileAt(fs, project_info.main_app_file))
    /\ project_info.routing_pattern # "factory"
    /\ project_info.recommended_run_method = "direct"

\* An analysed factory project whose main file has a run entry point.
C12_FactoryWithRun ==
    /\ project_info.analysed
    /\ project_info.main_app_file # NoneStr
    /\ HasAppRun(FileAt(fs, project_info.main_app_file))
    /\ project_info.routing_pattern = "factory"

\* analyze_project has been called.
Analysed == analyses > 0

\* No file the walk visits passes is_flask_file.
NoFileQualifies ==
    \A i \in 1 .. Len(Walk(fs, AnalyzerExcluded)) : ~IsFlaskFile(Walk(fs, AnalyzerExcluded)[i])

\* C13: when no file the walk visits qualifies as a Flask file, analyze
\* returns without an exception, and its result has no main_app_file, the
\* routing_pattern 'unknown' and no blueprints.
C13_NothingQualifies ==
    (Analysed /\ NoFileQualifies) =>
        /\ ~analysis_error
        /\ project_info.analysed
        /\ project_info.main_app_file = NoneStr
        /\ project_info.routing_pattern = "unknown"
        /\ project_info.blueprints = <<>>

\* The same, for the projects in which is_flask_file raises on no file.
C13_NothingQualifiesNothingRaises ==
    (Analysed /\ NoFileQualifies /\ ~FindFlaskFilesRaises(fs)) =>
        /\ project_info.analysed
        /\ project_info.main_app_file = NoneStr
        /\ project_info.routing_pattern = "unknown"
        /\ project_info.blueprints = <<>>

\* The files the walk visits that can be read and pass is_flask_file.
ReadableFlaskFiles ==
    SelectSeq(Walk(fs, AnalyzerExcluded), LAMBDA f : f.err = "none" /\ IsFlaskFile(f))

\* C18: analyze raises on no project, whatever open() or read() does on a
\* file: a file that cannot be read is skipped, and the files retained are
\* the readable Flask files of the walk, in walk order.
C18_UnreadableFilesSkipped ==
    Analysed =>
        /\ ~analysis_error
        /\ project_info.analysed
        /\ Len(project_info.flask_files) = Len(ReadableFlaskFiles)
        /\ \A i \in 1 .. Len(ReadableFlaskFiles) :
               project_info.flask_files[i].path = ReadableFlaskFiles[i].path

\* The same, for a file whose read fails with UnicodeDecodeError or
\* PermissionError only.
C18_DecodeAndPermissionSkipped ==
    (Analysed /\ \A i \in 1 .. Len(fs) : fs[i].err # "oserror") =>
        /\ ~analysis_error
        /\ project_info.analysed
        /\ Len(project_info.flask_files) = Len(ReadableFlaskFiles)
        /\ \A i \in 1 .. Len(ReadableFlaskFiles) :
               project_info.flask_files[i].path = ReadableFlaskFiles[i].path

\* The file name is one of the conventional names, whatever its case.
ConventionalName(path) ==
    \E i \in 1 .. Len(PriorityPatterns) : Lower(BaseName(path)) = PriorityPatterns[i]

\* The retained files that have a run entry point and a conventional name.
RunnableConventional ==
    {i \in 1 .. Len(project_info.flask_files) :
        /\ HasAppRun(FileAt(fs, project_info.flask_files[i].path))
        /\ ConventionalName(project_info.flask_files[i].path)}

\* C14: when exactly one retained file has both a run entry point and a
\* conventional file name, main_app_file is the path of that file, whatever
\* the other files of the project and their order in the walk.
C14_OnlyRunnableConventionalIsMain ==
    (project_info.analysed /\ Cardinality(RunnableConventional) = 1) =>
        \A i \in RunnableConventional :
            project_info.main_app_file = project_info.flask_files[i].path

\* The one runnable file of conventional name comes second in the walk,
\* after a retained file that is not such a file, and is the main file.
C14_Witness ==
    /\ project_info.analysed
    /\ RunnableConventional = {2}
    /\ project_info.main_app_file = project_info.flask_files[2].path

\* "app:app" and "myapp"
S_app_app == <<"a", "p", "p", ":", "a", "p", "p">>
S_myapp == <<"m", "y", "a", "p", "p">>

\* C15: when the main file is app.py at the project root, and it assigns
\* `app = Flask(...)` at the start of a line and has a main guard, the
\* FLASK_APP setting found is "app:app".
C15_RootAppPy ==
    (/\ project_info.analysed
     /\ project_info.main_app_file = P_app
     /\ AssignsAt(FileAt(fs, P_app).content, {"flask_ctor"}, S_app)
     /\ AnyLine(FileAt(fs, P_app).content, HasDunderMain))
        => flask_app_var = S_app_app

\* The same, for the projects in which no file defines a factory.
C15_RootAppPyNoFactory ==
    (/\ project_info.analysed
     /\ project_info.main_app_file = P_app
     /\ AssignsAt(FileAt(fs, P_app).content, {"flask_ctor"}, S_app)
     /\ AnyLine(FileAt(fs, P_app).content, HasDunderMain)
     /\ FindAppFactories(fs) = <<>>)
        => flask_app_var = S_app_app

\* The project's only file is myapp/__init__.py, and it defines create_app
\* and returns app.
OnlyPackageFactory ==
    /\ Len(fs) = 1
    /\ fs[1].path = P_myapp_init
    /\ IsAppFactory(fs[1])

FirstAnswer(answers) ==
    LET I == {i \in 1 .. Len(answers) : Truthy(answers[i])} IN
    IF I = {} THEN NoneStr ELSE answers[SetMin(I)]

\* C20: the FLASK_APP setting found is the answer of the first strategy that
\* has one, in the order: project-specific file name, direct assignment in
\* the main file, conventional WSGI sibling, factory usage, scan of every
\* file, fallback.
C20_StrategyOrder ==
    (project_info.analysed /\ Truthy(project_info.main_app_file)) =>
        flask_app_var =
            FirstAnswer(<<CheckProjectSpecificFiles(project_info.main_app_file, fs),
                          CheckMainFileAppVariable(project_info.main_app_file, fs),
                          CheckWsgiPatterns(project_info.main_app_file, fs),
                          ImprovedFactoryCheck(project_info.main_app_file, fs),
                          DeepFlaskAnalysis(project_info.main_app_file, fs),
                          FallbackSetting(project_info.main_app_file)>>)

\* C20, its particular case: a line-start assignment to an application
\* instance in the main file is preferred to any answer derived from a
\* factory defined in another file.
C20_DirectAssignmentBeforeFactory ==
    (/\ project_info.analysed
     /\ Truthy(project_info.main_app_file)
     /\ ~Truthy(CheckProjectSpecificFiles(project_info.main_app_file, fs))
     /\ Truthy(CheckMainFileAppVariable(project_info.main_app_file, fs)))
        => flask_app_var = CheckMainFileAppVariable(project_info.main_app_file, fs)

\* A hidden directory, a dependency or cache directory, or a
\* virtual-environment directory.
NonSourceDirectory(d) ==
    \/ StartsWith(d, <<".">>)
    \/ d \in {S_pycache, S_node_modules}
    \/ d \in {S_venv, S_env}

\* C19: no retained file lies under a hidden directory, a dependency or
\* cache directory (__pycache__, node_modules) or a virtual-environment
\* directory (venv, env).
C19_NoFactUnderNonSourceDirectory ==
    project_info.analysed =>
        \A i \in 1 .. Len(project_info.flask_files) :
            \A j \in 1 .. Len(DirParts(project_info.flask_files[i].path)) :
                ~NonSourceDirectory(DirParts(project_info.flask_files[i].path)[j])

\* The same for the directories find_flask_files prunes: hidden
\* directories, __pycache__ and node_modules.
C19_NoFactUnderPrunedDirectory ==
    project_info.analysed =>
        \A i \in 1 .. Len(project_info.flask_files) :
            \A j \in 1 .. Len(DirParts(project_info.flask_files[i].path)) :
                /\ ~StartsWith(DirParts(project_info.flask_files[i].path)[j], <<".">>)
                /\ DirParts(project_info.flask_files[i].path)[j]
                       \notin {S_pycache, S_node_modules}

FileSet(fsx) == {fsx[i] : i \in 1 .. Len(fsx)}

\* The orders in which a file system may list the files of the project:
\* the same files, the root first and each directory's files together.
Listings(fsx) ==
    {seq \in [1 .. Len(fsx) -> FileSet(fsx)] : IsWalkOrder(seq) /\ FileSet(seq) = FileSet(fsx)}

\* C21: the main file an analysis chooses is the one every analysis of the
\* same files chooses, in whatever order the file system lists them.
C21_MainFileWhateverTheListing ==
    project_info.analysed =>
        \A seq \in Listings(fs) :
            ~FindFlaskFilesRaises(seq)
                => FindMainAppFile(FindFlaskFiles(seq), seq) = project_info.main_app_file

\* The place of the file's name in the list of preference: first the names
\* derived from the project's name, then wsgi, app, run, main and server;
\* 0 for any other name.  The case of the file's name does not count.
NameRank(path) ==
    LET I == {i \in 1 .. Len(PriorityPatterns) : Lower(BaseName(path)) = PriorityPatterns[i]}
    IN  IF I = {} THEN 0 ELSE SetMin(I)

\* The retained files with a run entry point and a name of the list.
RankedRunnable ==
    {i \in 1 .. Len(project_info.flask_files) :
        /\ project_info.flask_files[i].has_app_run
        /\ NameRank(project_info.flask_files[i].path) > 0}

\* C22: when some retained file with a run entry point has a name of the
\* list, the main file is such a file, no other such file has a name
\* earlier in the list, and no other such file of the same name comes
\* before it in the walk.
C22_NamePreference ==
    (project_info.analysed /\ RankedRunnable # {}) =>
        \E m \in RankedRunnable :
            /\ project_info.main_app_file = project_info.flask_files[m].path
            /\ \A i \in RankedRunnable :
                   /\ NameRank(project_info.flask_files[m].path)
                          <= NameRank(project_info.flask_files[i].path)
                   /\ NameRank(project_info.flask_files[i].path)
                          = NameRank(project_info.flask_files[m].path) => m <= i

\* The main file comes second in the walk, after a runnable file whose name
\* is later in the list, and its name matches the project's only when the
\* case is left aside.
C22_Witness ==
    /\ project_info.analysed
    /\ RankedRunnable = {1, 2}
    /\ project_info.main_app_file = project_info.flask_files[2].path
    /\ NameRank(project_info.flask_files[2].path) = 1
    /\ BaseName(project_info.flask_files[2].path) # PriorityPatterns[1]

\* The lines of the files detect_blueprints reads: the retained files that
\* mention a blueprint.
BlueprintLines ==
    UNION {{fs[i].content[k] : k \in 1 .. Len(fs[i].content)} :
              i \in {i \in 1 .. Len(fs) :
                        \E j \in 1 .. Len(project_info.flask_files) :
                            /\ project_info.flask_files[j].path = fs[i].path
                            /\ project_info.flask_files[j].has_blueprints}}

\* The names the variable is declared with, and whether it is registered.
DeclaredNames(v) == {l.n : l \in {l \in BlueprintLines : l.k = "bp_decl" /\ l.v = v}}
IsRegistered(v) == \E l \in BlueprintLines : l.k = "bp_register" /\ l.v = v

\* The entries of the blueprints sequence for the variable.
EntriesOf(v) ==
    {j \in 1 .. Len(project_info.blueprints) : project_info.blueprints[j].variable = v}

\* C23: a variable that is declared with Blueprint('name') and passed to
\* register_blueprint has exactly one entry in blueprints, under its
\* declared name; a variable that is only registered has exactly one entry,
\* under the name of the variable.
C23_OneEntryPerBlueprint ==
    project_info.analysed =>
        \A v \in {S_bp} :
            /\ (IsRegistered(v) /\ DeclaredNames(v) # {}) =>
                   /\ Cardinality(EntriesOf(v)) = 1
                   /\ \A j \in EntriesOf(v) : project_info.blueprints[j].name \in DeclaredNames(v)
            /\ (IsRegistered(v) /\ DeclaredNames(v) = {}) =>
                   /\ Cardinality(EntriesOf(v)) = 1
                   /\ \A j \in EntriesOf(v) : project_info.blueprints[j].name = v

\* The same, when the declaration and the registration are in one file, or
\* the variable is only registered.
C23_OneEntryPerBlueprintInOneFile ==
    (project_info.analysed /\ Len(fs) <= 1) =>
        \A v \in {S_bp} :
            /\ (IsRegistered(v) /\ DeclaredNames(v) # {}) =>
                   /\ Cardinality(EntriesOf(v)) = 1
                   /\ \A j \in EntriesOf(v) : project_info.blueprints[j].name \in DeclaredNames(v)
            /\ (IsRegistered(v) /\ DeclaredNames(v) = {}) =>
                   /\ Cardinality(EntriesOf(v)) = 1
                   /\ \A j \in EntriesOf(v) : project_info.blueprints[j].name = v

\* The classes whose signature the error text carries.
ClassesCarried(ls) ==
    (IF Contains(ErrorText(ls), G_locate) \/ Contains(ErrorText(ls), G_find)
     THEN {"app_not_found"} ELSE {})
    \cup (IF Contains(ErrorText(ls), G_importerror)
             \/ Contains(ErrorText(ls), G_modulenotfounderror)
          THEN {"import"} ELSE {})
    \cup (IF Contains(ErrorText(ls), G_permission) THEN {"permission"} ELSE {})

\* The priority of a class: the smaller, the higher.
ClassRank(c) ==
    CASE c = "app_not_found" -> 1 [] c = "import" -> 2 [] c = "permission" -> 3
      [] OTHER -> 4

\* C24: the error lines are put in one class: of the classes whose
\* signature the text carries, the one of highest priority (missing
\* application, then import failure, then permission failure), and the
\* generic class when the text carries none.
C24_ClassByPriority ==
    failure_class # "none" =>
        /\ failure_class \in {"app_not_found", "import", "permission", "generic"}
        /\ ClassesCarried(error_lines) = {} => failure_class = "generic"
        /\ ClassesCarried(error_lines) # {} =>
               /\ failure_class \in ClassesCarried(error_lines)
               /\ \A c \in ClassesCarried(error_lines) : ClassRank(failure_class) <= ClassRank(c)

\* A text that carries the signatures of two classes, the import failure
\* in its first line, has been put in the class of the missing application.
C24_Witness ==
    /\ failure_class = "app_not_found"
    /\ Len(error_lines) = 2
    /\ ClassesCarried(<<error_lines[1]>>) = {"import"}
    /\ ClassesCarried(error_lines) = {"app_not_found", "import"}

\* The framework files of the project outside the excluded directories.
LiteCandidates ==
    {f \in FileSet(fs) : IsPy(f) /\ LiteIsFlaskFile(f) /\ WalkKeeps(f, LiteExcluded)}

\* The modules find_flask_files has returned.
LiteFound == {lite_scan.flask_files[i] : i \in 1 .. Len(lite_scan.flask_files)}

\* How many directories lie between the root and a file.
LevelsBelowRoot(f) == Len(DirParts(f.path))

\* C25: the depth-bounded scan returns every framework file at most 2
\* directory levels below the root, outside the excluded directories, and
\* no file deeper than that.
C25_TwoLevels ==
    lite_scan.scanned =>
        \A f \in LiteCandidates :
            LiteModule(f.path) \in LiteFound <=> LevelsBelowRoot(f) <= 2

\* Every framework file of the root or of a directory of the root is
\* returned.
C25_OneLevelIncluded ==
    lite_scan.scanned =>
        \A f \in LiteCandidates : LevelsBelowRoot(f) <= 1 => LiteModule(f.path) \in LiteFound

\* The places of the priority list's names in the list returned.
PriorityPresent ==
    SelectSeq(PriorityFiles, LAMBDA m : \E i \in 1 .. Len(RootFiles(fs)) : RootFiles(fs)[i] = m)

\* C29: the list returned starts with the root's framework modules of the
\* priority list, in the order of that list, so that its first element is
\* the name of highest priority present.
C29_PriorityOrder ==
    lite_scan.scanned =>
        /\ Len(lite_scan.flask_files) >= Len(PriorityPresent)
        /\ SubSeq(lite_scan.flask_files, 1, Len(PriorityPresent)) = PriorityPresent

\* The root's priority modules come first, in the reverse of the list's
\* order.
C29_ReversedPriorityOrder ==
    lite_scan.scanned =>
        /\ Len(lite_scan.flask_files) >= Len(PriorityPresent)
        /\ \A i \in 1 .. Len(PriorityPresent) :
               lite_scan.flask_files[i] = PriorityPresent[Len(PriorityPresent) + 1 - i]

\* C30: when log_message has returned, the console holds at most 1000
\* lines, whatever the number of lines of the messages logged.
C30_ConsoleBounded == console_lines <= ConsoleLimit

\* Worker w leaves its read loop in this step, its own child having exited.
EndsAfterExit(w) ==
    /\ variant = "pro"
    /\ workers[w].pc = "read"
    /\ workers'[w].pc = "done"
    /\ ~procs[workers[w].pid].alive

\* The line worker w reads in this step.
ReadsLine(w, line) ==
    /\ procs[workers[w].pid].out # <<>>
    /\ Head(procs[workers[w].pid].out) = line
    /\ procs'[workers[w].pid].out = Tail(procs[workers[w].pid].out)

\* What worker w has read of its child's output by the end of this step.
ErrorLineRead(w) == workers[w].error_lines \/ ReadsLine(w, "err")
SuccessLineRead(w) == workers[w].startup_successful \/ ReadsLine(w, "ok")

\* C26: when the child has exited after an error line and without a line
\* of success, the worker that leaves its loop posts
\* _handle_startup_failure, and _server_stopped behind it, however it
\* comes to see the exit.
C26_FailureHandlerPosted ==
    [][\A w \in 1 .. Len(workers) :
           (EndsAfterExit(w) /\ ErrorLineRead(w) /\ ~SuccessLineRead(w))
               => ui_queue' = ui_queue \o <<"startup_failure", "server_stopped">>]_vars

\* The same, for a worker that sees the exit by polling its own child
\* after a line.
C26_FailureHandlerPostedOnPoll ==
    [][\A w \in 1 .. Len(workers) :
           (/\ EndsAfterExit(w)
            /\ ErrorLineRead(w)
            /\ ~SuccessLineRead(w)
            /\ server_process = workers[w].pid
            /\ \E line \in {"ok", "err"} : ReadsLine(w, line))
               => ui_queue' = ui_queue \o <<"startup_failure", "server_stopped">>]_vars

\* C27: the status reads "Server: Running" only while server_running is
\* true.
C27_RunningOnlyWhileRunning == status_var = "Running" => server_running

\* C27, the part on what is pending: with the server stopped and no worker
\* started since, no timer is left to announce it as running.
C27_NoPendingAnnouncement ==
    (/\ ~server_running
     /\ status_var = "Stopped"
     /\ \A w \in 1 .. Len(workers) : workers[w].pc = "done")
        => \A i \in 1 .. Len(timers) : timers[i].what # "set_running"

\* The text of a launcher string before its colon; the whole of it when it
\* has none.
ModulePart(s) ==
    LET I == {i \in 1 .. Len(s) : s[i] = ":"} IN
    IF I = {} THEN s ELSE SubSeq(s, 1, SetMin(I) - 1)

\* The dotted path m names a source file or a package of the project.
ModuleExists(m, fsx) ==
    \E f \in FileSet(fsx) :
        \/ f.path = ReplaceChar(m, ".", "/") \o S_py
        \/ f.path = ReplaceChar(m, ".", "/") \o <<"/">> \o S_init_py

\* The launcher string is the one the analysis just made has detected.
LauncherDetected ==
    /\ Analysed
    /\ ~analysis_error
    /\ Truthy(project_info.main_app_file)
    /\ flask_app_var = GetFlaskAppSetting(project_info.main_app_file, fs)

\* C28: the module part of the launcher string get_flask_app_setting
\* returns is the dotted path of a source file or package of the project.
C28_ModuleExists ==
    LauncherDetected => ModuleExists(ModulePart(flask_app_var), fs)

\* The same for the answers of every strategy but the first, wherever the
\* main file lies.
C28_ModuleExistsUnlessProjectSpecific ==
    (LauncherDetected /\ ~Truthy(CheckProjectSpecificFiles(project_info.main_app_file, fs)))
        => ModuleExists(ModulePart(flask_app_var), fs)

====
